---- MODULE Spec2Model ----
(***************************************************************************)
(* A model of @scayle/h3-session: the signed-cookie codec                  *)
(* (signCookie / unsignCookie), the UnstorageSessionStore, the Session     *)
(* entity and the useSession orchestrator.                                 *)
(*                                                                         *)
(* Strings are sequences of one-character strings, so that the parser's    *)
(* length arithmetic, charAt and substring are modelled as written.        *)
(* HMAC-SHA256 itself (uncrypto's subtle.sign / subtle.verify) is outside  *)
(* the repository; it is modelled as an ideal MAC: a deterministic 32-byte *)
(* digest that is collision free on the bounded inputs.                    *)
(***************************************************************************)
EXTENDS Integers, Sequences, FiniteSets, TLC

\* ------------------------------------------------------------------ bounds
\* identifiers handed to the codec are the non-empty strings over IdChars
\* of at most this length
MaxIdLen == 2
\* secret lists handed to unsignCookie have at most this many elements
MaxSecrets == 2

\* ------------------------------------------------------------- characters
IdChars == {"a", ".", ":"}

RECURSIVE StringsUpTo(_, _)
StringsUpTo(chars, n) ==
  IF n = 0 THEN {<<>>}
  ELSE LET shorter == StringsUpTo(chars, n - 1)
       IN shorter \cup {Append(s, c) : s \in shorter, c \in chars}

\* The key caches of crypto.ts are object literals ({}), looked up with
\* _signKeys[secret]: a secret that names a property every object inherits
\* (constructor, toString, valueOf, hasOwnProperty, __proto__, ...) finds that
\* inherited member. The model carries one such name.
InheritedNames == {<<"c", "o", "n", "s", "t", "r", "u", "c", "t", "o", "r">>}

\* the secrets of the model: "x", "y" and "constructor"
SecretPool == {<<"x">>, <<"y">>} \cup InheritedNames

RECURSIVE SecretListsUpTo(_)
SecretListsUpTo(n) ==
  IF n = 0 THEN {<<>>}
  ELSE LET shorter == SecretListsUpTo(n - 1)
       IN shorter \cup {Append(l, s) : l \in shorter, s \in SecretPool}

\* TextEncoder.encode on the (ASCII) characters the model uses
CharCode(c) ==
  CASE c = "a" -> 97
    [] c = "b" -> 98
    [] c = "s" -> 115
    [] c = "c" -> 99
    [] c = "n" -> 110
    [] c = "o" -> 111
    [] c = "r" -> 114
    [] c = "t" -> 116
    [] c = "u" -> 117
    [] c = "x" -> 120
    [] c = "y" -> 121
    [] c = "." -> 46
    [] c = ":" -> 58
    [] OTHER -> 63

TextEncode(str) == [i \in 1..Len(str) |-> CharCode(str[i])]

\* ----------------------------------------------------------------- base64
B64Alphabet ==
  << "A","B","C","D","E","F","G","H","I","J","K","L","M","N","O","P",
     "Q","R","S","T","U","V","W","X","Y","Z","a","b","c","d","e","f",
     "g","h","i","j","k","l","m","n","o","p","q","r","s","t","u","v",
     "w","x","y","z","0","1","2","3","4","5","6","7","8","9","+","/" >>

B64Char(n) == B64Alphabet[n + 1]

\* Buffer.from(bytes).toString('base64'): standard alphabet, '=' padded
RECURSIVE Base64Encode(_)
Base64Encode(bytes) ==
  IF Len(bytes) = 0 THEN <<>>
  ELSE IF Len(bytes) = 1 THEN
    LET n == bytes[1] * 16
    IN << B64Char(n \div 64), B64Char(n % 64), "=", "=" >>
  ELSE IF Len(bytes) = 2 THEN
    LET n == (bytes[1] * 256 + bytes[2]) * 4
    IN << B64Char(n \div 4096), B64Char((n \div 64) % 64), B64Char(n % 64), "=" >>
  ELSE
    LET n == bytes[1] * 65536 + bytes[2] * 256 + bytes[3]
    IN << B64Char(n \div 262144), B64Char((n \div 4096) % 64),
          B64Char((n \div 64) % 64), B64Char(n % 64) >>
       \o Base64Encode(SubSeq(bytes, 4, Len(bytes)))

\* the encoding with its padding left on
KeepPadding(str) == str

\* .replace(/=+$/, '')
RECURSIVE StripPadding(_)
StripPadding(str) ==
  IF Len(str) > 0 /\ str[Len(str)] = "="
  THEN StripPadding(SubSeq(str, 1, Len(str) - 1))
  ELSE str

\* the value of one character for Buffer.from(str, 'base64'): the standard
\* alphabet, the URL-safe '-' and '_', and -1 for a character that is skipped
B64Value(c) ==
  IF c = "-" THEN 62
  ELSE IF c = "_" THEN 63
  ELSE IF \E i \in 1..64 : B64Alphabet[i] = c
       THEN (CHOOSE i \in 1..64 : B64Alphabet[i] = c) - 1
       ELSE -1

RECURSIVE SextetsToBytes(_)
SextetsToBytes(x) ==
  IF Len(x) < 2 THEN <<>>
  ELSE IF Len(x) = 2 THEN << x[1] * 4 + (x[2] \div 16) >>
  ELSE IF Len(x) = 3 THEN
    << x[1] * 4 + (x[2] \div 16), (x[2] % 16) * 16 + (x[3] \div 4) >>
  ELSE
    << x[1] * 4 + (x[2] \div 16), (x[2] % 16) * 16 + (x[3] \div 4),
       (x[3] % 4) * 64 + x[4] >>
    \o SextetsToBytes(SubSeq(x, 5, Len(x)))

\* Buffer.from(str, 'base64'): characters outside the alphabet contribute
\* nothing, left-over bits of the last character are dropped
Base64Decode(str) ==
  LET IsDigit(c) == B64Value(c) >= 0
      digits == SelectSeq(str, IsDigit)
  IN SextetsToBytes([i \in 1..Len(digits) |-> B64Value(digits[i])])

\* ------------------------------------------------------------------- HMAC
DigestLength == 32

RECURSIVE SumSeq(_)
SumSeq(s) == IF Len(s) = 0 THEN 0 ELSE s[1] + SumSeq(Tail(s))

\* HMAC-SHA256 as an ideal MAC: the digest is a length-prefixed encoding of
\* message and key (hence different for different pairs), closed by a
\* checksum byte
HmacSha256(keyBytes, msgBytes) ==
  LET body == <<Len(msgBytes)>> \o msgBytes \o <<Len(keyBytes)>> \o keyBytes
  IN [i \in 1..DigestLength |->
        IF i = DigestLength THEN (SumSeq(body) * 7 + 13) % 256
        ELSE IF i <= Len(body) THEN body[i]
        ELSE 0]

\* subtle.importKey('raw', encode(secret), HMAC/SHA-256, false, [usage])
ImportKey(secret, usage) == [raw |-> TextEncode(secret), usage |-> usage]

\* what _signKeys[secret] / _verifyKeys[secret] finds for an inherited name:
\* a truthy value that is no CryptoKey
InheritedMember == [raw |-> <<>>, usage |-> "none"]

\* getCryptoSignKey / getCryptoVerifyKey: `if (cache[secret]) return
\* cache[secret]`, else the imported key, which is cached. A cached key is the
\* key the import gave, so only an inherited name makes the lookup differ.
getCryptoSignKey(secret) ==
  IF secret \in InheritedNames THEN InheritedMember ELSE ImportKey(secret, "sign")

getCryptoVerifyKey(secret) ==
  IF secret \in InheritedNames THEN InheritedMember ELSE ImportKey(secret, "verify")

\* subtle.sign and subtle.verify reject with a TypeError when handed
\* something that is no CryptoKey of the usage asked for
IsCryptoKey(key, usage) == key.usage = usage

\* subtle.sign('HMAC', key, message)
SubtleSign(key, msgBytes) == HmacSha256(key.raw, msgBytes)

\* subtle.verify('HMAC', key, signature, message)
SubtleVerify(key, sigBytes, msgBytes) == sigBytes = HmacSha256(key.raw, msgBytes)

\* ------------------------------------------------------------------ codec
signatureLength == 43

NoMatch == [matched |-> FALSE, message |-> <<>>, signature |-> <<>>]

\* a parse that takes prefix and separator for granted
parseCookieValueUnchecked(value) ==
  IF Len(value) < signatureLength + 3 THEN NoMatch
  ELSE [matched |-> TRUE,
        message |-> SubSeq(value, 3, Len(value) - signatureLength - 1),
        signature |-> SubSeq(value, Len(value) - signatureLength + 1, Len(value))]

\* a parse that splits at the first '.' after the prefix
parseCookieValueFirstDot(value) ==
  IF Len(value) < signatureLength + 3 THEN NoMatch
  ELSE IF value[1] # "s" \/ value[2] # ":" THEN NoMatch
  ELSE IF ~\E i \in 3..Len(value) : value[i] = "." THEN NoMatch
  ELSE LET dot == CHOOSE i \in 3..Len(value) :
                    value[i] = "." /\ \A j \in 3..(i - 1) : value[j] # "."
       IN [matched |-> TRUE,
           message |-> SubSeq(value, 3, dot - 1),
           signature |-> SubSeq(value, dot + 1, Len(value))]

parseCookieValue(value) ==
  IF Len(value) < signatureLength + 3 THEN NoMatch
  ELSE
    LET separatorIndex == Len(value) - signatureLength  \* 1-based
    IN IF \/ value[1] # "s"
          \/ value[2] # ":"
          \/ value[separatorIndex] # "."
       THEN NoMatch
       ELSE [matched |-> TRUE,
             message |-> SubSeq(value, 3, separatorIndex - 1),
             signature |-> SubSeq(value, separatorIndex + 1, Len(value))]

\* what unsignCookie gives: the value `false`, a recovered message, or the
\* error it rejects with
UnsignFalse == [ok |-> FALSE, value |-> <<>>, error |-> ""]

Unsigned(message) == [ok |-> TRUE, value |-> message, error |-> ""]

UnsignThrew(msg) == [ok |-> FALSE, value |-> <<>>, error |-> msg]

\* the for loop of unsignCookie, from index i on: "match" when a secret
\* verifies, "none" when the loop runs out, "threw" when subtle.verify rejects
RECURSIVE VerifyFrom(_, _, _, _)
VerifyFrom(i, secrets, sigBytes, msgBytes) ==
  IF i > Len(secrets) THEN "none"
  ELSE LET cryptoKey == getCryptoVerifyKey(secrets[i])
       IN IF ~IsCryptoKey(cryptoKey, "verify") THEN "threw"
          ELSE IF SubtleVerify(cryptoKey, sigBytes, msgBytes) THEN "match"
          ELSE VerifyFrom(i + 1, secrets, sigBytes, msgBytes)

unsignCookie(value, secrets) ==
  LET matches == parseCookieValue(value)
  IN IF ~matches.matched THEN UnsignFalse
     ELSE LET found == VerifyFrom(1, secrets, Base64Decode(matches.signature),
                                  TextEncode(matches.message))
          IN IF found = "match" THEN Unsigned(matches.message)
             ELSE IF found = "threw" THEN UnsignThrew("TypeError")
             ELSE UnsignFalse

\* the result of signCookie: the cookie value, or the error thrown
SignError(msg) == [ok |-> FALSE, value |-> <<>>, error |-> msg]

signCookie(value, secret) ==
  IF value = <<>> THEN SignError("No value was provided!")
  ELSE IF secret = <<>> THEN SignError("No secret was provided!")
  ELSE
    LET cryptoKey == getCryptoSignKey(secret)
        signature == SubtleSign(cryptoKey, TextEncode(value))
        b64Signature == StripPadding(Base64Encode(signature))
    IN IF ~IsCryptoKey(cryptoKey, "sign") THEN SignError("TypeError")
       ELSE [ok |-> TRUE,
             value |-> <<"s", ":">> \o value \o <<".">> \o b64Signature,
             error |-> ""]


\* ------------------------------------------------- UnstorageSessionStore
Null == <<"undefined">>  \* null / undefined

NoItem == [present |-> FALSE, value |-> Null, ttl |-> 0]

Item(value, ttl) == [present |-> TRUE, value |-> value, ttl |-> ttl]

DefaultTtl == 86400      \* 60 * 60 * 24

DefaultPrefix == <<"s", "e", "s", "s">>

\* this.prefix = options?.prefix ?? 'sess'; this.ttl = options?.ttl ?? 86400
DefaultStoreOptions == [prefix |-> DefaultPrefix, ttlKind |-> "number",
                        ttl |-> DefaultTtl, ttlOf |-> <<>>]

\* [this.prefix, key].join(':')
\* a key without the separator
getKeyJoined(opts, sid) == opts.prefix \o sid

getKey(opts, sid) == opts.prefix \o <<":">> \o sid

\* the TTL function when one is configured, the fixed number otherwise
getTTL(opts, session) ==
  IF opts.ttlKind = "function" THEN opts.ttlOf[session] ELSE opts.ttl

\* storage.removeItem(key) / getItem(key) / setItem(key, value, {ttl})
RemoveItem(kv, key) == [kv EXCEPT ![key] = NoItem]

GetItem(kv, key) == IF kv[key].present THEN kv[key].value ELSE Null

SetItem(kv, key, value, ttl) == [kv EXCEPT ![key] = Item(value, ttl)]

StoreDestroy(kv, opts, sid) == RemoveItem(kv, getKey(opts, sid))

\* item ?? undefined
StoreGet(kv, opts, sid) == GetItem(kv, getKey(opts, sid))

\* a set that stores whatever the TTL is
StoreSetAlways(kv, opts, sid, data) ==
  SetItem(kv, getKey(opts, sid), data, getTTL(opts, data))

StoreSet(kv, opts, sid, data) ==
  LET ttl == getTTL(opts, data)
  IN IF ttl > 0 THEN SetItem(kv, getKey(opts, sid), data, ttl)
     ELSE StoreDestroy(kv, opts, sid)

\* touch re-saves the data to bump the TTL
StoreTouch(kv, opts, sid, data) == StoreSet(kv, opts, sid, data)


\* ------------------------------------------------------------ orchestrator
\* bounds of the orchestrator model
MaxOps == 1          \* operations the handlers perform on their entities
MaxEntityOps == 2    \* the same, when one request is followed on its own
MaxFailures == 1     \* store operations that fail
MaxSaves == 2        \* save() calls, when two requests save side by side

\* two useSession invocations, on one request or on two
Tasks == {1, 2}
Events == {1, 2}

SidA == <<"a">>
SidB == <<"a", ".", "b">>
Sids == {SidA, SidB}

\* session data values: what config.generate() returns, and application data
GenData == <<"fresh">>
StoredData == <<"stored">>            \* what the storage holds before the first request
AppValue(x) == <<"app", x>>        \* what the handler working on entity x writes
DataValues == {GenData, StoredData} \cup {AppValue(x) : x \in {1, 2}}

\* what a handler assigns to session.cookie.maxAge
MaxAgeValues == {3600}

UnsetId == <<"undefined">>
NoCookie == <<"undefined">>     \* getCookie found no cookie of that name
NotArrived == <<"no request">>

\* the empty string, which a genid may return as well
EmptyId == <<>>

StorageKeys == {getKey(DefaultStoreOptions, sid) : sid \in Sids \cup {EmptyId}}

VARIABLES
  codec,      \* state of the codec specification (SpecCodec)
  config,     \* the H3SessionOptions passed to useSession
  storage,    \* the unstorage instance behind config.store
  storage0,   \* the storage as it was before the first request
  reqCookie,  \* per request: the value of its session cookie
  ctx,        \* per request: event.context.{session, sessionId, sessionStore}
  hdr,        \* per request: the outbound Set-Cookie header of the session cookie
  task,       \* per useSession invocation: position and local variables
  ent,        \* per invocation: the Session entity (and cookie) it created
  log,        \* per invocation: the calls it and its entity have made
  failures,   \* store failures so far
  ops,        \* the entity operations the handlers may still begin
  overlap     \* whether invocations and entity operations may overlap

vars == <<codec, config, storage, storage0, reqCookie, ctx, hdr, task, ent,
          log, failures, ops, overlap>>


\* ------------------------------------------------------------------ config
NoSecret == [kind |-> "undefined", value |-> <<>>]
SecretString(str) == [kind |-> "string", value |-> str]
SecretArray(list) == [kind |-> "array", value |-> list]

\* the secret that signs, an older secret that still verifies, a foreign one
NewSecret == <<"y">>
OldSecret == <<"x">>
ForeignSecret == <<"x", "y">>

\* !config.secret
SecretFalsy(secret) ==
  \/ secret.kind = "undefined"
  \/ secret.kind = "string" /\ secret.value = <<>>

\* a validateConfig that looks at the secret before the store
validateConfigSecretFirst(cfg) ==
  IF SecretFalsy(cfg.secret) THEN "[h3-session] Session secret is required!"
  ELSE IF ~cfg.hasStore THEN "[h3-session] Session store is required!"
  ELSE ""

\* validateConfig: the error thrown, or "" when the config passes
validateConfig(cfg) ==
  IF ~cfg.hasStore THEN "[h3-session] Session store is required!"
  ELSE IF SecretFalsy(cfg.secret) THEN "[h3-session] Session secret is required!"
  ELSE ""

\* Array.isArray(secret) ? secret : [secret]
normalizedSecrets(cfg) ==
  IF cfg.secret.kind = "array" THEN cfg.secret.value ELSE <<cfg.secret.value>>

\* signing with normalizedSecrets[0]
FirstSecret(cfg) ==
  LET secrets == normalizedSecrets(cfg)
  IN IF Len(secrets) = 0 THEN <<>> ELSE secrets[1]

\* normalizedSecrets[normalizedSecrets.length - 1]; undefined (falsy, like
\* the empty string) for an empty array
SigningSecret(cfg) ==
  LET secrets == normalizedSecrets(cfg)
  IN IF Len(secrets) = 0 THEN <<>> ELSE secrets[Len(secrets)]

DefaultMaxAge == 86400   \* 60 * 60 * 24

\* the cookie descriptor of createSessionCookie: defu(config.cookie, {path:
\* '/', httpOnly: true, secure: true, maxAge: null}) with maxAge || one day
CookieAttrs(cfg) ==
  [path |-> <<"/">>, domain |-> Null, name |-> Null, httpOnly |-> TRUE,
   secure |-> TRUE, sameSite |-> Null, expires |-> Null,
   maxAge |-> IF ~cfg.cookieMaxAge.given \/ cfg.cookieMaxAge.value = 0
              THEN DefaultMaxAge ELSE cfg.cookieMaxAge.value]

\* a cookie.maxAge the configuration leaves out, or gives as a number
NotGiven == [given |-> FALSE, value |-> 0]
Given(n) == [given |-> TRUE, value |-> n]

\* the application's configuration
Configs ==
  [hasStore : {TRUE}, hasTouch : BOOLEAN, saveUninitialized : BOOLEAN,
   secret : {SecretString(NewSecret), SecretArray(<<OldSecret, NewSecret>>)},
   cookieMaxAge : {NotGiven}]

\* what one invocation passes: the configuration, or it without store or secret
Defects == {"none", "no store", "no secret"}

PassedConfig(cfg, defect) ==
  IF defect = "neither"
  THEN [cfg EXCEPT !.hasStore = FALSE, !.secret = NoSecret]
  ELSE IF defect = "no store" THEN [cfg EXCEPT !.hasStore = FALSE]
  ELSE IF defect = "no secret" THEN [cfg EXCEPT !.secret = NoSecret]
  ELSE cfg

\* ---------------------------------------------------------------- requests
Signed(sid, secret) == signCookie(sid, secret).value

\* the signed cookie of sid with the identifier text replaced by other
WithIdentifier(cookie, other) ==
  <<"s", ":">> \o other
    \o SubSeq(cookie, Len(cookie) - signatureLength, Len(cookie))

CookieInputs ==
  { NoCookie,
    Signed(SidA, NewSecret),
    Signed(SidA, OldSecret),
    Signed(SidB, NewSecret),
    Signed(SidA, ForeignSecret),
    WithIdentifier(Signed(SidB, NewSecret), SidA),
    <<"s", ":", "a">> }

\* the inputs of the runs in which invocations overlap
OverlapCookieInputs == {NoCookie, Signed(SidA, NewSecret)}

OverlapConfigs ==
  {c \in Configs : c.hasTouch /\ c.secret.kind = "array"}

\* a cookie value is truthy unless absent or empty
CookieTruthy(raw) == raw # NoCookie /\ raw # <<>>

\* ------------------------------------------------------------------- state
NoSession == 0

NoAttrs ==
  [path |-> Null, domain |-> Null, name |-> Null, httpOnly |-> FALSE,
   secure |-> FALSE, sameSite |-> Null, expires |-> Null, maxAge |-> 0]

NoHeader == [set |-> FALSE, value |-> <<>>, attrs |-> NoAttrs]

Header(value, attrs) == [set |-> TRUE, value |-> value, attrs |-> attrs]

IdleTask ==
  [pc |-> "idle", event |-> 0, passed |-> "none", sid |-> UnsetId,
   data |-> Null, branch |-> "none", error |-> ""]

NoEntity ==
  [made |-> FALSE, id |-> UnsetId, data |-> Null, cookie |-> NoAttrs,
   signedCookie |-> <<>>, op |-> "idle", pc |-> "", argId |-> UnsetId,
   arg |-> Null, signing |-> FALSE, result |-> ""]

EmptyContext == [session |-> NoSession, sessionId |-> UnsetId, sessionStore |-> FALSE]

\* one call, as recorded in the log: what was called, in the course of which
\* API operation, and with (or returning) which identifier, data and value
Call(op, via, sid, data, val) ==
  [op |-> op, via |-> via, sid |-> sid, data |-> data, val |-> val]

InitialStorages ==
  { [k \in StorageKeys |-> NoItem],
    [k \in StorageKeys |->
       IF k = getKey(DefaultStoreOptions, SidA)
       THEN Item(StoredData, DefaultTtl) ELSE NoItem] }

IdleCodec == [pc |-> "off"]

Init ==
  /\ codec = IdleCodec
  /\ overlap \in BOOLEAN
  /\ config \in (IF overlap THEN OverlapConfigs ELSE Configs)
  /\ storage \in InitialStorages
  /\ storage0 = storage
  /\ reqCookie = [e \in Events |-> NotArrived]
  /\ ctx = [e \in Events |-> EmptyContext]
  /\ hdr = [e \in Events |-> NoHeader]
  /\ task = [t \in Tasks |-> IdleTask]
  /\ ent = [t \in Tasks |-> NoEntity]
  /\ log = [t \in Tasks |-> <<>>]
  /\ failures = 0
  /\ ops = MaxOps


\* ------------------------------------------------------------- useSession
Logged(t, call) == [log EXCEPT ![t] = Append(@, call)]

Logged2(t, c1, c2) == [log EXCEPT ![t] = Append(Append(@, c1), c2)]

Running(t) == task[t].pc \notin {"idle", "done", "failed"}

\* an operation of entity x, or the signing of its cookie, is in progress
Busy(x) == ent[x].op # "idle" \/ ent[x].signing

\* nothing is in flight
Quiet == \A t \in Tasks : ~Running(t) /\ ~Busy(t)

\* the cookies request e can carry when it arrives: the first request any
\* input, a later request what the client of an earlier request holds (the
\* cookie it sent, or the one it was sent)
ArrivingCookies(e) ==
  IF e = 1 THEN (IF overlap THEN OverlapCookieInputs ELSE CookieInputs)
  ELSE {reqCookie[f] : f \in 1..(e - 1)}
         \cup {hdr[f].value : f \in {g \in 1..(e - 1) : hdr[g].set}}

\* invocations start in the order of their numbers; the invocation is the
\* first one on request e, which arrives carrying cookie c, or a further one
\* on a request that has arrived
MayStart(t, e, c) ==
  /\ task[t].pc = "idle"
  /\ overlap \/ Quiet
  /\ \A u \in Tasks : u < t => task[u].pc # "idle"
  /\ IF reqCookie[e] = NotArrived
     THEN /\ \A f \in Events : f < e => reqCookie[f] # NotArrived
          /\ c \in ArrivingCookies(e)
     ELSE c = reqCookie[e]
  /\ reqCookie' = [reqCookie EXCEPT ![e] = c]

\* validateConfig(config) moved in front of the guard
UseSessionSkipValidated(t, e, defect, c) ==
  /\ MayStart(t, e, c)
  /\ ctx[e].session # NoSession
  /\ task' = [task EXCEPT ![t] =
       IF validateConfig(PassedConfig(config, defect)) # ""
       THEN [@ EXCEPT !.pc = "failed", !.event = e, !.passed = defect,
                      !.error = validateConfig(PassedConfig(config, defect))]
       ELSE [@ EXCEPT !.pc = "done", !.event = e, !.passed = defect,
                      !.branch = "skipped"]]
  /\ UNCHANGED <<codec, config, storage, storage0, ctx, hdr, ent,
                 log, failures, ops, overlap>>

\* if (event.context.session) return
UseSessionSkip(t, e, defect, c) ==
  /\ MayStart(t, e, c)
  /\ ctx[e].session # NoSession
  /\ task' = [task EXCEPT ![t] =
       [@ EXCEPT !.pc = "done", !.event = e, !.passed = defect,
                 !.branch = "skipped"]]
  /\ UNCHANGED <<codec, config, storage, storage0, ctx, hdr, ent,
                 log, failures, ops, overlap>>

\* validateConfig(config) throws
UseSessionInvalid(t, e, defect, c) ==
  /\ MayStart(t, e, c)
  /\ ctx[e].session = NoSession
  /\ validateConfig(PassedConfig(config, defect)) # ""
  /\ task' = [task EXCEPT ![t] =
       [@ EXCEPT !.pc = "failed", !.event = e, !.passed = defect,
                 !.error = validateConfig(PassedConfig(config, defect))]]
  /\ UNCHANGED <<codec, config, storage, storage0, ctx, hdr, ent,
                 log, failures, ops, overlap>>

\* the cookie is there: await unsignCookie(rawCookie, normalizedSecrets)
UseSessionCookie(t, e, c) ==
  /\ MayStart(t, e, c)
  /\ ctx[e].session = NoSession
  /\ validateConfig(config) = ""
  /\ CookieTruthy(c)
  /\ task' = [task EXCEPT ![t] =
       [@ EXCEPT !.pc = "unsign", !.event = e]]
  /\ log' = Logged(t, Call("getCookie", "useSession", UnsetId, Null, <<>>))
  /\ UNCHANGED <<codec, config, storage, storage0, ctx, hdr, ent,
                 failures, ops, overlap>>

\* createNewSession up to its first await: generate() has called
\* config.genid(event), which returns gid, and config.generate()
EnterNew(t, e, gid, before) ==
  /\ task' = [task EXCEPT ![t] =
       [@ EXCEPT !.pc = "newSign", !.event = e, !.sid = gid, !.data = GenData,
                 !.branch = "new"]]
  /\ log' = [log EXCEPT ![t] = @ \o before \o
       << Call("genid", "useSession", gid, Null, <<>>),
          Call("generate", "useSession", UnsetId, GenData, <<>>) >>]

\* no cookie: sessionId is null, createNewSession()
UseSessionNoCookie(t, e, gid, c) ==
  /\ MayStart(t, e, c)
  /\ ctx[e].session = NoSession
  /\ validateConfig(config) = ""
  /\ ~CookieTruthy(c)
  /\ EnterNew(t, e, gid,
       <<Call("getCookie", "useSession", UnsetId, Null, <<>>)>>)
  /\ UNCHANGED <<codec, config, storage, storage0, ctx, hdr, ent,
                 failures, ops, overlap>>

\* `if (sessionId !== null)`: whatever unsignCookie returned passes
UsableNotNull(r) == r.ok \/ ~r.ok

\* `if (sessionId)`: the identifier unsignCookie returned is usable
Usable(r) == r.ok /\ r.value # <<>>

\* unsignCookie returned an identifier: store.get(sessionId) is called
UnsignAccept(t) ==
  /\ task[t].pc = "unsign"
  /\ LET r == unsignCookie(reqCookie[task[t].event], normalizedSecrets(config))
     IN /\ Usable(r)
        /\ task' = [task EXCEPT ![t] =
             [@ EXCEPT !.pc = "getCall", !.sid = r.value]]
        /\ log' = Logged(t, Call("store.get", "useSession", r.value, Null, <<>>))
  /\ UNCHANGED <<codec, config, storage, storage0, reqCookie, ctx, hdr, ent,
                 failures, ops, overlap>>

\* unsignCookie returned false (or an empty identifier): createNewSession();
\* had it rejected, useSession would reject with its error
UnsignReject(t, gid) ==
  /\ task[t].pc = "unsign"
  /\ LET r == unsignCookie(reqCookie[task[t].event], normalizedSecrets(config))
     IN /\ ~Usable(r)
        /\ IF r.error # ""
           THEN /\ task' = [task EXCEPT ![t] =
                     [@ EXCEPT !.pc = "failed", !.error = r.error]]
                /\ UNCHANGED log
           ELSE EnterNew(t, task[t].event, gid, <<>>)
  /\ UNCHANGED <<codec, config, storage, storage0, reqCookie, ctx, hdr, ent,
                 failures, ops, overlap>>

\* store.get(sessionId) reads the storage
GetEffect(t) ==
  /\ task[t].pc = "getCall"
  /\ task' = [task EXCEPT ![t] =
       [@ EXCEPT !.pc = "getRet",
                 !.data = StoreGet(storage, DefaultStoreOptions, task[t].sid)]]
  /\ UNCHANGED <<codec, config, storage, storage0, reqCookie, ctx, hdr, ent,
                 log, failures, ops, overlap>>

\* store.get(sessionId) rejects and the rejection is caught: no data
GetFailCaught(t) ==
  /\ task[t].pc = "getCall"
  /\ failures < MaxFailures
  /\ failures' = failures + 1
  /\ task' = [task EXCEPT ![t] =
       [@ EXCEPT !.pc = "getRet", !.data = Null, !.error = "store.get failed"]]
  /\ UNCHANGED <<codec, config, storage, storage0, reqCookie, ctx, hdr, ent,
                 log, ops, overlap>>

\* store.get(sessionId) rejects: useSession throws
GetFail(t) ==
  /\ task[t].pc = "getCall"
  /\ failures < MaxFailures
  /\ failures' = failures + 1
  /\ task' = [task EXCEPT ![t] = [@ EXCEPT !.pc = "failed", !.error = "store.get failed"]]
  /\ UNCHANGED <<codec, config, storage, storage0, reqCookie, ctx, hdr, ent,
                 log, ops, overlap>>

\* createSessionCookie(sid): cookie.setSessionId(sid) signs sid with the last
\* secret and calls setCookie(event, name, signedCookie, cookie)
EmitCookie(t, next) ==
  LET signed == signCookie(task[t].sid, SigningSecret(config))
      attrs == CookieAttrs(config)
  IN IF ~signed.ok
     THEN /\ task' = [task EXCEPT ![t] = [@ EXCEPT !.pc = "failed", !.error = signed.error]]
          /\ UNCHANGED <<hdr, ent, log>>
     ELSE /\ task' = [task EXCEPT ![t] = [@ EXCEPT !.pc = next]]
          /\ hdr' = [hdr EXCEPT ![task[t].event] = Header(signed.value, attrs)]
          /\ ent' = [ent EXCEPT ![t] =
               [@ EXCEPT !.cookie = attrs, !.signedCookie = signed.value]]
          /\ log' = Logged(t, Call("setCookie", "useSession", task[t].sid, Null,
                                   signed.value))

\* new Session(id, data, store, generate, cookie), attached to the context
Attached(t, data) ==
  /\ ent' = [ent EXCEPT ![t] =
       [@ EXCEPT !.made = TRUE, !.id = task[t].sid, !.data = data]]

\* createNewSession: the cookie of the new identifier
NewEmit(t) ==
  /\ task[t].pc = "newSign"
  /\ EmitCookie(t, "newCookie")
  /\ UNCHANGED <<codec, config, storage, storage0, reqCookie, ctx, failures, ops, overlap>>

\* createNewSession saving whatever saveUninitialized says
NewAttachSaving(t) ==
  /\ task[t].pc = "newCookie"
  /\ Attached(t, task[t].data)
  /\ ctx' = [ctx EXCEPT ![task[t].event] = [@ EXCEPT !.session = t]]
  /\ task' = [task EXCEPT ![t] = [@ EXCEPT !.pc = "saveCall"]]
  /\ log' = Logged(t, Call("store.set", "useSession", task[t].sid,
                           task[t].data, <<>>))
  /\ UNCHANGED <<codec, config, storage, storage0, reqCookie, hdr, failures, ops, overlap>>

\* createNewSession: event.context.session = new Session(...), then either
\* await session.save() or event.context.sessionId = id
NewAttach(t) ==
  /\ task[t].pc = "newCookie"
  /\ Attached(t, task[t].data)
  /\ IF config.saveUninitialized
     THEN /\ ctx' = [ctx EXCEPT ![task[t].event] = [@ EXCEPT !.session = t]]
          /\ task' = [task EXCEPT ![t] = [@ EXCEPT !.pc = "saveCall"]]
          /\ log' = Logged(t, Call("store.set", "useSession", task[t].sid,
                                   task[t].data, <<>>))
     ELSE /\ ctx' = [ctx EXCEPT ![task[t].event] =
               [@ EXCEPT !.session = t, !.sessionId = task[t].sid]]
          /\ task' = [task EXCEPT ![t] = [@ EXCEPT !.pc = "finish"]]
          /\ UNCHANGED log
  /\ UNCHANGED <<codec, config, storage, storage0, reqCookie, hdr, failures, ops, overlap>>

\* the store.set of the saveUninitialized save() writes the storage
SaveEffect(t) ==
  /\ task[t].pc = "saveCall"
  /\ storage' = StoreSet(storage, DefaultStoreOptions, task[t].sid, task[t].data)
  /\ task' = [task EXCEPT ![t] = [@ EXCEPT !.pc = "saveRet"]]
  /\ UNCHANGED <<codec, config, storage0, reqCookie, ctx, hdr, ent, log,
                 failures, ops, overlap>>

\* the store.set of the saveUninitialized save() rejects: useSession throws
SaveFail(t) ==
  /\ task[t].pc = "saveCall"
  /\ failures < MaxFailures
  /\ failures' = failures + 1
  /\ task' = [task EXCEPT ![t] = [@ EXCEPT !.pc = "failed", !.error = "store.set failed"]]
  /\ UNCHANGED <<codec, config, storage, storage0, reqCookie, ctx, hdr, ent,
                 log, ops, overlap>>

\* createNewSession after the save: event.context.sessionId = id
SaveResume(t) ==
  /\ task[t].pc = "saveRet"
  /\ ctx' = [ctx EXCEPT ![task[t].event] = [@ EXCEPT !.sessionId = task[t].sid]]
  /\ task' = [task EXCEPT ![t] = [@ EXCEPT !.pc = "finish"]]
  /\ UNCHANGED <<codec, config, storage, storage0, reqCookie, hdr, ent, log,
                 failures, ops, overlap>>

\* createExistingSession(sessionId, sessionData): the cookie of the identifier
ExistingEmit(t) ==
  /\ task[t].pc = "getRet"
  /\ EmitCookie(t, "exCookie")
  /\ UNCHANGED <<codec, config, storage, storage0, reqCookie, ctx, failures, ops, overlap>>

\* createExistingSession minting an identifier when the data is missing
ExistingAttachMinted(t, before) ==
  LET missing == task[t].data = Null
      sid == IF missing THEN SidB ELSE task[t].sid
  IN /\ ent' = [ent EXCEPT ![t] =
          [@ EXCEPT !.made = TRUE, !.id = sid,
                    !.data = IF missing THEN GenData ELSE task[t].data]]
     /\ ctx' = [ctx EXCEPT ![task[t].event] =
          [@ EXCEPT !.session = t, !.sessionId = sid]]
     /\ task' = [task EXCEPT ![t] =
          [@ EXCEPT !.pc = "finish",
                    !.branch = IF missing THEN "reuse" ELSE "existing"]]
     /\ log' = [log EXCEPT ![t] = @ \o before \o
          (IF missing
           THEN << Call("genid", "useSession", sid, Null, <<>>),
                   Call("generate", "useSession", UnsetId, GenData, <<>>) >>
           ELSE <<>>)]

\* createExistingSession: new Session(id, data ?? config.generate(), ...),
\* event.context.sessionId = id
ExistingAttach(t, before) ==
  /\ Attached(t, IF task[t].data = Null THEN GenData ELSE task[t].data)
  /\ ctx' = [ctx EXCEPT ![task[t].event] =
       [@ EXCEPT !.session = t, !.sessionId = task[t].sid]]
  /\ task' = [task EXCEPT ![t] =
       [@ EXCEPT !.pc = "finish",
                 !.branch = IF task[t].data = Null THEN "reuse" ELSE "existing"]]
  /\ log' = [log EXCEPT ![t] = @ \o before \o
       (IF task[t].data = Null
        THEN <<Call("generate", "useSession", UnsetId, GenData, <<>>)>>
        ELSE <<>>)]

\* createExistingSession without the touch
ExistingProceedNoTouch(t) ==
  /\ task[t].pc = "exCookie"
  /\ ExistingAttach(t, <<>>)
  /\ UNCHANGED <<codec, config, storage, storage0, reqCookie, hdr, failures, ops, overlap>>

\* createExistingSession touching whether or not there is data
ExistingProceedTouching(t) ==
  /\ task[t].pc = "exCookie"
  /\ IF config.hasTouch
     THEN /\ task' = [task EXCEPT ![t] = [@ EXCEPT !.pc = "touchCall"]]
          /\ log' = Logged(t, Call("store.touch", "useSession", task[t].sid,
                                   task[t].data, <<>>))
          /\ UNCHANGED <<ctx, ent>>
     ELSE ExistingAttach(t, <<>>)
  /\ UNCHANGED <<codec, config, storage, storage0, reqCookie, hdr, failures, ops, overlap>>

\* createExistingSession after the cookie: `if (store.touch && data)` touch,
\* else attach at once
ExistingProceed(t) ==
  /\ task[t].pc = "exCookie"
  /\ IF config.hasTouch /\ task[t].data # Null
     THEN /\ task' = [task EXCEPT ![t] = [@ EXCEPT !.pc = "touchCall"]]
          /\ log' = Logged(t, Call("store.touch", "useSession", task[t].sid,
                                   task[t].data, <<>>))
          /\ UNCHANGED <<ctx, ent>>
     ELSE ExistingAttach(t, <<>>)
  /\ UNCHANGED <<codec, config, storage, storage0, reqCookie, hdr, failures, ops, overlap>>

\* store.touch(id, data) writes the storage
TouchEffect(t) ==
  /\ task[t].pc = "touchCall"
  /\ storage' = StoreTouch(storage, DefaultStoreOptions, task[t].sid, task[t].data)
  /\ task' = [task EXCEPT ![t] = [@ EXCEPT !.pc = "touchRet"]]
  /\ UNCHANGED <<codec, config, storage0, reqCookie, ctx, hdr, ent, log,
                 failures, ops, overlap>>

\* store.touch(id, data) rejects: useSession throws
TouchFail(t) ==
  /\ task[t].pc = "touchCall"
  /\ failures < MaxFailures
  /\ failures' = failures + 1
  /\ task' = [task EXCEPT ![t] = [@ EXCEPT !.pc = "failed", !.error = "store.touch failed"]]
  /\ UNCHANGED <<codec, config, storage, storage0, reqCookie, ctx, hdr, ent,
                 log, ops, overlap>>

\* createExistingSession after the touch
TouchResume(t) ==
  /\ task[t].pc = "touchRet"
  /\ ExistingAttach(t, <<>>)
  /\ UNCHANGED <<codec, config, storage, storage0, reqCookie, hdr, failures, ops, overlap>>

\* useSession returning without exposing the store
FinishNoStore(t) ==
  /\ task[t].pc = "finish"
  /\ task' = [task EXCEPT ![t] = [@ EXCEPT !.pc = "done"]]
  /\ UNCHANGED <<codec, config, storage, storage0, reqCookie, ctx, hdr, ent,
                 log, failures, ops, overlap>>

\* event.context.sessionStore = store; useSession returns
Finish(t) ==
  /\ task[t].pc = "finish"
  /\ ctx' = [ctx EXCEPT ![task[t].event] = [@ EXCEPT !.sessionStore = TRUE]]
  /\ task' = [task EXCEPT ![t] = [@ EXCEPT !.pc = "done"]]
  /\ UNCHANGED <<codec, config, storage, storage0, reqCookie, hdr, ent, log,
                 failures, ops, overlap>>


\* ---------------------------------------------------------- Session entity
\* the handler of a request works on event.context.session once a useSession
\* invocation on the request has returned
\* without overlap a request is handled to its end before the next arrives
Current(e) == \A f \in Events : f > e => reqCookie[f] = NotArrived

MayUse(x) ==
  /\ ent[x].made
  /\ overlap \/ (Quiet /\ Current(task[x].event))
  /\ ~Busy(x)
  /\ \E e \in Events :
       /\ ctx[e].session = x
       /\ \E u \in Tasks : task[u].event = e /\ task[u].pc = "done"

MayOperate(x) ==
  /\ MayUse(x)
  /\ ops > 0

\* the entity begins operation op at position pc, with a store call pending
\* on (argId, arg)
Begin(x, op, pc, argId, arg) ==
  [ent[x] EXCEPT !.op = op, !.pc = pc, !.argId = argId, !.arg = arg,
                 !.result = ""]

\* the operation in progress ends, resolved ("ok") or rejected ("failed")
End(e, result) ==
  [e EXCEPT !.op = "idle", !.pc = "", !.argId = UnsetId, !.arg = Null,
            !.result = result]

\* the handler leaves session.data as it is or assigns its own value to it,
\* then calls session.save(): this.#store.set(this.#id, this.data)
SaveCall(x, d) ==
  /\ MayOperate(x)
  /\ d \in {ent[x].data, AppValue(x)}
  /\ ops' = ops - 1
  /\ ent' = [ent EXCEPT ![x] =
       [Begin(x, "save", "set", ent[x].id, d) EXCEPT !.data = d]]
  /\ log' = Logged(x, Call("store.set", "save", ent[x].id, d, <<>>))
  /\ UNCHANGED <<codec, config, storage, storage0, reqCookie, ctx, hdr, task,
                 failures, overlap>>

\* a store.set of save() that stores the cookie along with the data
SaveSetWithCookie(x) ==
  /\ ent[x].op = "save" /\ ent[x].pc = "set"
  /\ storage' = StoreSet(storage, DefaultStoreOptions, ent[x].argId,
                         ent[x].arg \o <<"cookie">>)
  /\ ent' = [ent EXCEPT ![x] = [@ EXCEPT !.pc = "ret"]]
  /\ UNCHANGED <<codec, config, storage0, reqCookie, ctx, hdr, task, log,
                 failures, ops, overlap>>

\* a store.set of save() that merges the data into the stored entry
SaveSetMerged(x) ==
  /\ ent[x].op = "save" /\ ent[x].pc = "set"
  /\ LET old == StoreGet(storage, DefaultStoreOptions, ent[x].argId)
     IN storage' = StoreSet(storage, DefaultStoreOptions, ent[x].argId,
                           IF old = Null THEN ent[x].arg ELSE old \o ent[x].arg)
  /\ ent' = [ent EXCEPT ![x] = [@ EXCEPT !.pc = "ret"]]
  /\ UNCHANGED <<codec, config, storage0, reqCookie, ctx, hdr, task, log,
                 failures, ops, overlap>>

\* the store.set of save() writes the storage
SaveSetEffect(x) ==
  /\ ent[x].op = "save" /\ ent[x].pc = "set"
  /\ storage' = StoreSet(storage, DefaultStoreOptions, ent[x].argId, ent[x].arg)
  /\ ent' = [ent EXCEPT ![x] = [@ EXCEPT !.pc = "ret"]]
  /\ UNCHANGED <<codec, config, storage0, reqCookie, ctx, hdr, task, log,
                 failures, ops, overlap>>

\* the store.set of save() rejects: save() rejects
SaveSetFail(x) ==
  /\ ent[x].op = "save" /\ ent[x].pc = "set"
  /\ failures < MaxFailures
  /\ failures' = failures + 1
  /\ ent' = [ent EXCEPT ![x] = End(ent[x], "failed")]
  /\ UNCHANGED <<codec, config, storage, storage0, reqCookie, ctx, hdr, task,
                 log, ops, overlap>>

\* a save() whose promise never settles
SaveReturnPending(x) ==
  /\ ent[x].op = "save" /\ ent[x].pc = "ret"
  /\ UNCHANGED vars

\* save() resolves
SaveReturn(x) ==
  /\ ent[x].op = "save" /\ ent[x].pc = "ret"
  /\ ent' = [ent EXCEPT ![x] = End(ent[x], "ok")]
  /\ UNCHANGED <<codec, config, storage, storage0, reqCookie, ctx, hdr, task,
                 log, failures, ops, overlap>>

\* the handler assigns its own value to session.data
AssignData(x) ==
  /\ MayOperate(x)
  /\ ops' = ops - 1
  /\ ent' = [ent EXCEPT ![x] = [@ EXCEPT !.data = AppValue(x)]]
  /\ log' = Logged(x, Call("assign", "handler", ent[x].id, AppValue(x), <<>>))
  /\ UNCHANGED <<codec, config, storage, storage0, reqCookie, ctx, hdr, task,
                 failures, overlap>>

\* session.reload(): await this.#store.get(this.#id)
ReloadCall(x) ==
  /\ MayOperate(x)
  /\ ops' = ops - 1
  /\ ent' = [ent EXCEPT ![x] = Begin(x, "reload", "get", ent[x].id, Null)]
  /\ log' = Logged(x, Call("store.get", "reload", ent[x].id, Null, <<>>))
  /\ UNCHANGED <<codec, config, storage, storage0, reqCookie, ctx, hdr, task,
                 failures, overlap>>

\* the store.get of reload() reads the storage
ReloadGetEffect(x) ==
  /\ ent[x].op = "reload" /\ ent[x].pc = "get"
  /\ ent' = [ent EXCEPT ![x] =
       [@ EXCEPT !.pc = "got",
                 !.arg = StoreGet(storage, DefaultStoreOptions, ent[x].argId)]]
  /\ UNCHANGED <<codec, config, storage, storage0, reqCookie, ctx, hdr, task,
                 log, failures, ops, overlap>>

\* the store.get of reload() rejects: reload() rejects before assigning
ReloadGetFail(x) ==
  /\ ent[x].op = "reload" /\ ent[x].pc = "get"
  /\ failures < MaxFailures
  /\ failures' = failures + 1
  /\ ent' = [ent EXCEPT ![x] = End(ent[x], "failed")]
  /\ UNCHANGED <<codec, config, storage, storage0, reqCookie, ctx, hdr, task,
                 log, ops, overlap>>

\* a reload() that resolves without assigning what it read
ReloadFoundKept(x) ==
  /\ ent[x].op = "reload" /\ ent[x].pc = "got"
  /\ ent[x].arg # Null
  /\ ent' = [ent EXCEPT ![x] = End(ent[x], "ok")]
  /\ UNCHANGED <<codec, config, storage, storage0, reqCookie, ctx, hdr, task,
                 log, failures, ops, overlap>>

\* reload() with data from the store: this.data = data; reload() resolves
ReloadFound(x) ==
  /\ ent[x].op = "reload" /\ ent[x].pc = "got"
  /\ ent[x].arg # Null
  /\ ent' = [ent EXCEPT ![x] = [End(ent[x], "ok") EXCEPT !.data = ent[x].arg]]
  /\ UNCHANGED <<codec, config, storage, storage0, reqCookie, ctx, hdr, task,
                 log, failures, ops, overlap>>

\* reload() with nothing from the store: await this.#generate(), in which
\* config.genid(event) returns gid and config.generate() the data
ReloadGenerate(x, gid) ==
  /\ ent[x].op = "reload" /\ ent[x].pc = "got"
  /\ ent[x].arg = Null
  /\ ent' = [ent EXCEPT ![x] = [@ EXCEPT !.pc = "generated", !.arg = GenData]]
  /\ log' = Logged2(x, Call("genid", "reload", gid, Null, <<>>),
                       Call("generate", "reload", UnsetId, GenData, <<>>))
  /\ UNCHANGED <<codec, config, storage, storage0, reqCookie, ctx, hdr, task,
                 failures, ops, overlap>>

\* this.data = (await this.#generate()).data; reload() resolves
ReloadGenerated(x) ==
  /\ ent[x].op = "reload" /\ ent[x].pc = "generated"
  /\ ent' = [ent EXCEPT ![x] = [End(ent[x], "ok") EXCEPT !.data = ent[x].arg]]
  /\ UNCHANGED <<codec, config, storage, storage0, reqCookie, ctx, hdr, task,
                 log, failures, ops, overlap>>

\* a set trap that leaves the Set-Cookie header as it is
CookieKept(x, attrs) ==
  /\ hdr' = hdr

\* the Proxy set trap of the cookie: target[property] = value, then
\* setCookie(event, name, signedCookie, cookie) on the entity's request
CookieAssigned(x, attrs) ==
  /\ hdr' = [hdr EXCEPT ![task[x].event] = Header(ent[x].signedCookie, attrs)]

\* session.destroy(): this.cookie.maxAge = 0, then this.#store.destroy(this.#id)
DestroyCall(x) ==
  /\ MayOperate(x)
  /\ ops' = ops - 1
  /\ LET attrs == [ent[x].cookie EXCEPT !.maxAge = 0]
     IN /\ CookieAssigned(x, attrs)
        /\ ent' = [ent EXCEPT ![x] =
             [Begin(x, "destroy", "destroy", ent[x].id, Null) EXCEPT !.cookie = attrs]]
  /\ log' = Logged2(x, Call("setCookie", "destroy", ent[x].id, Null,
                            ent[x].signedCookie),
                       Call("store.destroy", "destroy", ent[x].id, Null, <<>>))
  /\ UNCHANGED <<codec, config, storage, storage0, reqCookie, ctx, task,
                 failures, overlap>>

\* a store.destroy of destroy() that removes nothing
DestroyNothing(x) ==
  /\ ent[x].op = "destroy" /\ ent[x].pc = "destroy"
  /\ ent' = [ent EXCEPT ![x] = [@ EXCEPT !.pc = "ret"]]
  /\ UNCHANGED <<codec, config, storage, storage0, reqCookie, ctx, hdr, task,
                 log, failures, ops, overlap>>

\* the store.destroy of destroy() removes the entry
DestroyEffect(x) ==
  /\ ent[x].op = "destroy" /\ ent[x].pc = "destroy"
  /\ storage' = StoreDestroy(storage, DefaultStoreOptions, ent[x].argId)
  /\ ent' = [ent EXCEPT ![x] = [@ EXCEPT !.pc = "ret"]]
  /\ UNCHANGED <<codec, config, storage0, reqCookie, ctx, hdr, task, log,
                 failures, ops, overlap>>

\* the store.destroy of destroy() rejects: destroy() rejects
DestroyFail(x) ==
  /\ ent[x].op = "destroy" /\ ent[x].pc = "destroy"
  /\ failures < MaxFailures
  /\ failures' = failures + 1
  /\ ent' = [ent EXCEPT ![x] = End(ent[x], "failed")]
  /\ UNCHANGED <<codec, config, storage, storage0, reqCookie, ctx, hdr, task,
                 log, ops, overlap>>

\* destroy() resolves
DestroyReturn(x) ==
  /\ ent[x].op = "destroy" /\ ent[x].pc = "ret"
  /\ ent' = [ent EXCEPT ![x] = End(ent[x], "ok")]
  /\ UNCHANGED <<codec, config, storage, storage0, reqCookie, ctx, hdr, task,
                 log, failures, ops, overlap>>

\* the handler assigns session.cookie.maxAge = maxAge: the Proxy set trap
AssignMaxAge(x, maxAge) ==
  /\ MayOperate(x)
  /\ ops' = ops - 1
  /\ LET attrs == [ent[x].cookie EXCEPT !.maxAge = maxAge]
     IN /\ CookieAssigned(x, attrs)
        /\ ent' = [ent EXCEPT ![x] = [@ EXCEPT !.cookie = attrs]]
  /\ log' = Logged(x, Call("setCookie", "assign", ent[x].id, Null,
                           ent[x].signedCookie))
  /\ UNCHANGED <<codec, config, storage, storage0, reqCookie, ctx, task,
                 failures, overlap>>

\* the properties a handler assigns on session.cookie
MutableProperties == {"expires", "maxAge", "httpOnly", "secure", "sameSite"}

FixedProperties == {"name", "path", "domain"}

\* the values a handler assigns to a property of session.cookie
AssignableValues(property) ==
  CASE property = "expires" -> {<<"date1">>}
    [] property = "maxAge" -> MaxAgeValues
    [] property = "httpOnly" -> {FALSE}
    [] property = "secure" -> {FALSE}
    [] property = "sameSite" -> {<<"lax">>}
    [] property = "name" -> {<<"new-name">>}
    [] property = "path" -> {<<"/foo">>}
    [] property = "domain" -> {<<"example.com">>}

\* the handler assigns session.cookie[property] = value: the Proxy set trap
\* stores the value on the target and calls setCookie with the target
AssignCookie(x, property, value) ==
  /\ MayOperate(x)
  /\ ops' = ops - 1
  /\ LET attrs == [ent[x].cookie EXCEPT ![property] = value]
     IN /\ CookieAssigned(x, attrs)
        /\ ent' = [ent EXCEPT ![x] = [@ EXCEPT !.cookie = attrs]]
  /\ log' = Logged(x, Call("setCookie", "assign", ent[x].id, Null,
                           ent[x].signedCookie))
  /\ UNCHANGED <<codec, config, storage, storage0, reqCookie, ctx, task,
                 failures, overlap>>

\* session.regenerate(): await this.#store.destroy(this.#id)
RegenerateCall(x) ==
  /\ MayOperate(x)
  /\ ops' = ops - 1
  /\ ent' = [ent EXCEPT ![x] = Begin(x, "regenerate", "destroy", ent[x].id, Null)]
  /\ log' = Logged(x, Call("store.destroy", "regenerate", ent[x].id, Null, <<>>))
  /\ UNCHANGED <<codec, config, storage, storage0, reqCookie, ctx, hdr, task,
                 failures, overlap>>

\* a store.destroy of regenerate() that removes nothing
RegenDestroyNothing(x) ==
  /\ ent[x].op = "regenerate" /\ ent[x].pc = "destroy"
  /\ ent' = [ent EXCEPT ![x] = [@ EXCEPT !.pc = "generate"]]
  /\ UNCHANGED <<codec, config, storage, storage0, reqCookie, ctx, hdr, task,
                 log, failures, ops, overlap>>

\* the store.destroy of regenerate() removes the old entry
RegenDestroyEffect(x) ==
  /\ ent[x].op = "regenerate" /\ ent[x].pc = "destroy"
  /\ storage' = StoreDestroy(storage, DefaultStoreOptions, ent[x].argId)
  /\ ent' = [ent EXCEPT ![x] = [@ EXCEPT !.pc = "generate"]]
  /\ UNCHANGED <<codec, config, storage0, reqCookie, ctx, hdr, task, log,
                 failures, ops, overlap>>

\* the store.destroy of regenerate() rejects: regenerate() rejects
RegenDestroyFail(x) ==
  /\ ent[x].op = "regenerate" /\ ent[x].pc = "destroy"
  /\ failures < MaxFailures
  /\ failures' = failures + 1
  /\ ent' = [ent EXCEPT ![x] = End(ent[x], "failed")]
  /\ UNCHANGED <<codec, config, storage, storage0, reqCookie, ctx, hdr, task,
                 log, ops, overlap>>

\* regenerate() after the destroy: { data, id } = await this.#generate(), in
\* which config.genid(event) returns gid; this.data = data; this.#id = id;
\* then cookie.setSessionId(id) starts signing and save() calls store.set
RegenResume(x, gid) ==
  /\ ent[x].op = "regenerate" /\ ent[x].pc = "generate"
  /\ ent' = [ent EXCEPT ![x] =
       [@ EXCEPT !.id = gid, !.data = GenData, !.signing = TRUE, !.pc = "set",
                 !.argId = gid, !.arg = GenData]]
  /\ log' = [log EXCEPT ![x] = @ \o
       << Call("genid", "regenerate", gid, Null, <<>>),
          Call("generate", "regenerate", UnsetId, GenData, <<>>),
          Call("store.set", "regenerate", gid, GenData, <<>>) >>]
  /\ UNCHANGED <<codec, config, storage, storage0, reqCookie, ctx, hdr, task,
                 failures, ops, overlap>>

\* a setSessionId(id) that emits the cookie with the attributes of the
\* configuration
RegenSignFreshAttrs(x) ==
  /\ ent[x].signing
  /\ LET signed == signCookie(ent[x].id, SigningSecret(config))
     IN /\ signed.ok
        /\ hdr' = [hdr EXCEPT ![task[x].event] =
             Header(signed.value, CookieAttrs(config))]
        /\ ent' = [ent EXCEPT ![x] =
             [@ EXCEPT !.signing = FALSE, !.signedCookie = signed.value]]
        /\ log' = Logged(x, Call("setCookie", "regenerate", ent[x].id, Null,
                                 signed.value))
  /\ UNCHANGED <<codec, config, storage, storage0, reqCookie, ctx, task,
                 failures, ops, overlap>>

\* setSessionId(id) of regenerate(): signedCookie = await signCookie(sid, last
\* secret); setCookie(event, name, signedCookie, cookie)
RegenSign(x) ==
  /\ ent[x].signing
  /\ LET signed == signCookie(ent[x].id, SigningSecret(config))
     IN /\ signed.ok
        /\ hdr' = [hdr EXCEPT ![task[x].event] = Header(signed.value, ent[x].cookie)]
        /\ ent' = [ent EXCEPT ![x] =
             [@ EXCEPT !.signing = FALSE, !.signedCookie = signed.value]]
        /\ log' = Logged(x, Call("setCookie", "regenerate", ent[x].id, Null,
                                 signed.value))
  /\ UNCHANGED <<codec, config, storage, storage0, reqCookie, ctx, task,
                 failures, ops, overlap>>

\* setSessionId(id) of regenerate() when signCookie throws: Promise.all
\* rejects, and so does regenerate(); the store.set already called is still
\* under way
RegenSignFail(x) ==
  /\ ent[x].signing
  /\ ~signCookie(ent[x].id, SigningSecret(config)).ok
  /\ ent' = [ent EXCEPT ![x] =
       IF ent[x].op = "regenerate" /\ ent[x].pc = "set"
       THEN [@ EXCEPT !.signing = FALSE, !.pc = "setRejected", !.result = "failed"]
       ELSE [End(ent[x], "failed") EXCEPT !.signing = FALSE]]
  /\ UNCHANGED <<codec, config, storage, storage0, reqCookie, ctx, hdr, task,
                 log, failures, ops, overlap>>

\* the store.set of a regenerate() that has already rejected writes the storage
RegenSetAfterReject(x) ==
  /\ ent[x].op = "regenerate" /\ ent[x].pc = "setRejected"
  /\ storage' = StoreSet(storage, DefaultStoreOptions, ent[x].argId, ent[x].arg)
  /\ ent' = [ent EXCEPT ![x] = End(ent[x], "failed")]
  /\ UNCHANGED <<codec, config, storage0, reqCookie, ctx, hdr, task, log,
                 failures, ops, overlap>>

\* the store.set of regenerate()'s save() writes the storage
RegenSetEffect(x) ==
  /\ ent[x].op = "regenerate" /\ ent[x].pc = "set"
  /\ storage' = StoreSet(storage, DefaultStoreOptions, ent[x].argId, ent[x].arg)
  /\ ent' = [ent EXCEPT ![x] = [@ EXCEPT !.pc = "ret"]]
  /\ UNCHANGED <<codec, config, storage0, reqCookie, ctx, hdr, task, log,
                 failures, ops, overlap>>

\* the store.set of regenerate()'s save() rejects: Promise.all rejects, and
\* so does regenerate(); a signing still under way completes later
RegenSetFail(x) ==
  /\ ent[x].op = "regenerate" /\ ent[x].pc = "set"
  /\ failures < MaxFailures
  /\ failures' = failures + 1
  /\ ent' = [ent EXCEPT ![x] = End(ent[x], "failed")]
  /\ UNCHANGED <<codec, config, storage, storage0, reqCookie, ctx, hdr, task,
                 log, ops, overlap>>

\* regenerate() resolving as soon as the save has
RegenReturnAfterSave(x) ==
  /\ ent[x].op = "regenerate" /\ ent[x].pc = "ret"
  /\ ent' = [ent EXCEPT ![x] = End(ent[x], "ok")]
  /\ UNCHANGED <<codec, config, storage, storage0, reqCookie, ctx, hdr, task,
                 log, failures, ops, overlap>>

\* both promises of Promise.all have resolved: regenerate() resolves
RegenReturn(x) ==
  /\ ent[x].op = "regenerate" /\ ent[x].pc = "ret"
  /\ ~ent[x].signing
  /\ ent' = [ent EXCEPT ![x] = End(ent[x], "ok")]
  /\ UNCHANGED <<codec, config, storage, storage0, reqCookie, ctx, hdr, task,
                 log, failures, ops, overlap>>

\* ---------------------------------------------------------- specification
Next ==
  \/ \E t \in Tasks, e \in Events, d \in Defects, c \in CookieInputs :
       UseSessionSkip(t, e, d, c)
  \/ \E t \in Tasks, e \in Events, d \in Defects, c \in CookieInputs :
       UseSessionInvalid(t, e, d, c)
  \/ \E t \in Tasks, e \in Events, c \in CookieInputs : UseSessionCookie(t, e, c)
  \/ \E t \in Tasks, e \in Events, gid \in Sids, c \in CookieInputs :
       UseSessionNoCookie(t, e, gid, c)
  \/ \E t \in Tasks : UnsignAccept(t)
  \/ \E t \in Tasks, gid \in Sids : UnsignReject(t, gid)
  \/ \E t \in Tasks : GetEffect(t)
  \/ \E t \in Tasks : GetFail(t)
  \/ \E t \in Tasks : NewEmit(t)
  \/ \E t \in Tasks : NewAttach(t)
  \/ \E t \in Tasks : SaveEffect(t)
  \/ \E t \in Tasks : SaveFail(t)
  \/ \E t \in Tasks : SaveResume(t)
  \/ \E t \in Tasks : ExistingEmit(t)
  \/ \E t \in Tasks : ExistingProceed(t)
  \/ \E t \in Tasks : TouchEffect(t)
  \/ \E t \in Tasks : TouchFail(t)
  \/ \E t \in Tasks : TouchResume(t)
  \/ \E t \in Tasks : Finish(t)
  \/ \E x \in Tasks, d \in DataValues : SaveCall(x, d)
  \/ \E x \in Tasks : SaveSetEffect(x)
  \/ \E x \in Tasks : SaveSetFail(x)
  \/ \E x \in Tasks : SaveReturn(x)
  \/ \E x \in Tasks : DestroyCall(x)
  \/ \E x \in Tasks : DestroyEffect(x)
  \/ \E x \in Tasks : DestroyFail(x)
  \/ \E x \in Tasks : DestroyReturn(x)

Spec == Init /\ [][Next]_vars

\* ------------------------------------------ one request, followed further
\* a single useSession invocation on a single request, and what the handler
\* then does with the entity: save, destroy, regenerate, cookie assignments
InitEntity ==
  /\ codec = IdleCodec
  /\ overlap = FALSE
  /\ config \in Configs
  /\ storage \in InitialStorages
  /\ storage0 = storage
  /\ reqCookie = [e \in Events |-> NotArrived]
  /\ ctx = [e \in Events |-> EmptyContext]
  /\ hdr = [e \in Events |-> NoHeader]
  /\ task = [t \in Tasks |-> IdleTask]
  /\ ent = [t \in Tasks |-> NoEntity]
  /\ log = [t \in Tasks |-> <<>>]
  /\ failures = 0
  /\ ops = MaxEntityOps

NextEntity ==
  \/ \E c \in CookieInputs : UseSessionCookie(1, 1, c)
  \/ \E gid \in Sids, c \in CookieInputs : UseSessionNoCookie(1, 1, gid, c)
  \/ UnsignAccept(1)
  \/ \E gid \in Sids : UnsignReject(1, gid)
  \/ GetEffect(1)
  \/ GetFail(1)
  \/ NewEmit(1)
  \/ NewAttach(1)
  \/ SaveEffect(1)
  \/ SaveFail(1)
  \/ SaveResume(1)
  \/ ExistingEmit(1)
  \/ ExistingProceed(1)
  \/ TouchEffect(1)
  \/ TouchFail(1)
  \/ TouchResume(1)
  \/ Finish(1)
  \/ \E d \in DataValues : SaveCall(1, d)
  \/ SaveSetEffect(1)
  \/ SaveSetFail(1)
  \/ SaveReturn(1)
  \/ DestroyCall(1)
  \/ DestroyEffect(1)
  \/ DestroyFail(1)
  \/ DestroyReturn(1)
  \/ \E maxAge \in MaxAgeValues : AssignMaxAge(1, maxAge)
  \/ RegenerateCall(1)
  \/ RegenDestroyEffect(1)
  \/ RegenDestroyFail(1)
  \/ \E gid \in Sids : RegenResume(1, gid)
  \/ RegenSign(1)
  \/ RegenSetEffect(1)
  \/ RegenSetFail(1)
  \/ RegenReturn(1)

SpecEntity == InitEntity /\ [][NextEntity]_vars

\* a single useSession invocation on a single request
UseSessionOnce ==
  \/ \E c \in CookieInputs : UseSessionCookie(1, 1, c)
  \/ \E gid \in Sids, c \in CookieInputs : UseSessionNoCookie(1, 1, gid, c)
  \/ UnsignAccept(1)
  \/ \E gid \in Sids : UnsignReject(1, gid)
  \/ GetEffect(1)
  \/ GetFail(1)
  \/ NewEmit(1)
  \/ NewAttach(1)
  \/ SaveEffect(1)
  \/ SaveFail(1)
  \/ SaveResume(1)
  \/ ExistingEmit(1)
  \/ ExistingProceed(1)
  \/ TouchEffect(1)
  \/ TouchFail(1)
  \/ TouchResume(1)
  \/ Finish(1)

\* ----------------------------------- one request, and its regenerate()
\* the identifiers genid returns to regenerate()
RegenIds == Sids \cup {EmptyId}

NextRegenerate ==
  \/ UseSessionOnce
  \/ RegenerateCall(1)
  \/ RegenDestroyEffect(1)
  \/ RegenDestroyFail(1)
  \/ \E gid \in RegenIds : RegenResume(1, gid)
  \/ RegenSign(1)
  \/ RegenSignFail(1)
  \/ RegenSetEffect(1)
  \/ RegenSetAfterReject(1)
  \/ RegenSetFail(1)
  \/ RegenReturn(1)

SpecRegenerate == InitEntity /\ [][NextRegenerate]_vars

\* ------------------------------------------ one request, and its reload()
\* the handler assigns data, saves, destroys and reloads
NextReload ==
  \/ UseSessionOnce
  \/ AssignData(1)
  \/ \E d \in DataValues : SaveCall(1, d)
  \/ SaveSetEffect(1)
  \/ SaveSetFail(1)
  \/ SaveReturn(1)
  \/ DestroyCall(1)
  \/ DestroyEffect(1)
  \/ DestroyFail(1)
  \/ DestroyReturn(1)
  \/ ReloadCall(1)
  \/ ReloadGetEffect(1)
  \/ ReloadGetFail(1)
  \/ ReloadFound(1)
  \/ \E gid \in Sids : ReloadGenerate(1, gid)
  \/ ReloadGenerated(1)

SpecReload == InitEntity /\ [][NextReload]_vars

\* --------------------------------------- two requests, saving side by side
\* two requests, each with one useSession invocation, handled at the same
\* time; their handlers call save()
InitSaves ==
  /\ codec = IdleCodec
  /\ overlap = TRUE
  /\ config \in OverlapConfigs
  /\ storage \in InitialStorages
  /\ storage0 = storage
  /\ reqCookie = [e \in Events |-> NotArrived]
  /\ ctx = [e \in Events |-> EmptyContext]
  /\ hdr = [e \in Events |-> NoHeader]
  /\ task = [t \in Tasks |-> IdleTask]
  /\ ent = [t \in Tasks |-> NoEntity]
  /\ log = [t \in Tasks |-> <<>>]
  /\ failures = 0
  /\ ops = MaxSaves

NextSaves ==
  \/ \E t \in Tasks, c \in CookieInputs : UseSessionCookie(t, t, c)
  \/ \E t \in Tasks, gid \in Sids, c \in CookieInputs :
       UseSessionNoCookie(t, t, gid, c)
  \/ \E t \in Tasks : UnsignAccept(t)
  \/ \E t \in Tasks : GetEffect(t)
  \/ \E t \in Tasks : GetFail(t)
  \/ \E t \in Tasks : NewEmit(t)
  \/ \E t \in Tasks : NewAttach(t)
  \/ \E t \in Tasks : SaveEffect(t)
  \/ \E t \in Tasks : SaveFail(t)
  \/ \E t \in Tasks : SaveResume(t)
  \/ \E t \in Tasks : ExistingEmit(t)
  \/ \E t \in Tasks : ExistingProceed(t)
  \/ \E t \in Tasks : TouchEffect(t)
  \/ \E t \in Tasks : TouchFail(t)
  \/ \E t \in Tasks : TouchResume(t)
  \/ \E t \in Tasks : Finish(t)
  \/ \E x \in Tasks, d \in DataValues : SaveCall(x, d)
  \/ \E x \in Tasks : SaveSetEffect(x)
  \/ \E x \in Tasks : SaveSetFail(x)
  \/ \E x \in Tasks : SaveReturn(x)

SpecSaves == InitSaves /\ [][NextSaves]_vars

\* ------------------------------ one request, invoked with any config
\* the configs an invocation may pass, one without store and secret included
AnyDefects == Defects \cup {"neither"}

\* useSession invocations on one request, one after the other
NextConfig ==
  \/ \E t \in Tasks, d \in AnyDefects, c \in CookieInputs :
       UseSessionSkip(t, 1, d, c)
  \/ \E t \in Tasks, d \in AnyDefects, c \in CookieInputs :
       UseSessionInvalid(t, 1, d, c)
  \/ \E t \in Tasks, c \in CookieInputs : UseSessionCookie(t, 1, c)
  \/ \E t \in Tasks, gid \in Sids, c \in CookieInputs :
       UseSessionNoCookie(t, 1, gid, c)
  \/ \E t \in Tasks : UnsignAccept(t)
  \/ \E t \in Tasks, gid \in Sids : UnsignReject(t, gid)
  \/ \E t \in Tasks : GetEffect(t)
  \/ \E t \in Tasks : GetFail(t)
  \/ \E t \in Tasks : NewEmit(t)
  \/ \E t \in Tasks : NewAttach(t)
  \/ \E t \in Tasks : SaveEffect(t)
  \/ \E t \in Tasks : SaveFail(t)
  \/ \E t \in Tasks : SaveResume(t)
  \/ \E t \in Tasks : ExistingEmit(t)
  \/ \E t \in Tasks : ExistingProceed(t)
  \/ \E t \in Tasks : TouchEffect(t)
  \/ \E t \in Tasks : TouchFail(t)
  \/ \E t \in Tasks : TouchResume(t)
  \/ \E t \in Tasks : Finish(t)

SpecConfig == InitEntity /\ [][NextConfig]_vars

\* ------------------------------- one request, and its cookie descriptor
\* the handler assigns properties of session.cookie
NextCookie ==
  \/ UseSessionOnce
  \/ \E p \in MutableProperties : \E v \in AssignableValues(p) :
       AssignCookie(1, p, v)
  \/ \E p \in FixedProperties : \E v \in AssignableValues(p) :
       AssignCookie(1, p, v)

SpecCookie == InitEntity /\ [][NextCookie]_vars


\* ------------------------------------------------- the codec on its own
\* the orchestrator at rest, while the codec functions are exercised
orchestratorVars == <<config, storage, storage0, reqCookie, ctx, hdr, task,
                      ent, log, failures, ops, overlap>>

\* what a caller can do to a signed cookie before handing it to unsignCookie
Tamperings == {"identifier", "signature", "prefix", "colon", "separator",
               "truncated", "extended"}

\* the identifiers put in the place of the signed one
Replacements == StringsUpTo(IdChars, 1)

\* the values of the codec's inputs: any string, the empty one included
CodecValues == StringsUpTo(IdChars, MaxIdLen)

CodecSecrets == SecretPool \cup {<<>>}

CodecSecretLists == SecretListsUpTo(MaxSecrets)

CodecInput(value, secret, secrets) ==
  [pc |-> "input", value |-> value, secret |-> secret, secrets |-> secrets,
   cookie |-> <<>>, how |-> "none", result |-> UnsignFalse, error |-> ""]

InitCodec ==
  /\ codec \in {CodecInput(v, s, l) :
                  v \in CodecValues, s \in CodecSecrets, l \in CodecSecretLists}
  /\ overlap = FALSE
  /\ config = CHOOSE c \in Configs : TRUE
  /\ storage = [k \in StorageKeys |-> NoItem]
  /\ storage0 = storage
  /\ reqCookie = [e \in Events |-> NotArrived]
  /\ ctx = [e \in Events |-> EmptyContext]
  /\ hdr = [e \in Events |-> NoHeader]
  /\ task = [t \in Tasks |-> IdleTask]
  /\ ent = [t \in Tasks |-> NoEntity]
  /\ log = [t \in Tasks |-> <<>>]
  /\ failures = 0
  /\ ops = 0

\* signCookie(value, secret) resolves with the cookie value, or throws
CodecSign ==
  /\ codec.pc = "input"
  /\ LET signed == signCookie(codec.value, codec.secret)
     IN codec' = IF signed.ok
                 THEN [codec EXCEPT !.pc = "signed", !.cookie = signed.value,
                                    !.how = "signed"]
                 ELSE [codec EXCEPT !.pc = "threw", !.error = signed.error]
  /\ UNCHANGED orchestratorVars

\* the last character of a signature carries four bits of the digest and two
\* bits that the decoder drops: the characters that share its four bits
SameBits(c) ==
  {B64Char(n) : n \in {m \in 0..63 : m \div 4 = B64Value(c) \div 4}}

\* the cookie as the caller changed it
Tampered(cookie, kind, other, c) ==
  CASE kind = "identifier" -> WithIdentifier(cookie, other)
    [] kind = "signature" -> [cookie EXCEPT ![Len(cookie)] = c]
    [] kind = "prefix" -> [cookie EXCEPT ![1] = "a"]
    [] kind = "colon" -> [cookie EXCEPT ![2] = "a"]
    [] kind = "separator" ->
         [cookie EXCEPT ![Len(cookie) - signatureLength] = ":"]
    [] kind = "truncated" -> SubSeq(cookie, 1, Len(cookie) - 1)
    [] OTHER -> Append(cookie, c)

CodecTamper(kind, other, c) ==
  /\ codec.pc = "signed"
  /\ codec.how = "signed"
  /\ kind = "identifier" => other # codec.value
  /\ kind # "identifier" => other = <<>>
  /\ kind = "signature" =>
       c \in SameBits(codec.cookie[Len(codec.cookie)]) \ {codec.cookie[Len(codec.cookie)]}
  /\ kind # "signature" => c = "A"
  /\ codec' = [codec EXCEPT !.cookie = Tampered(codec.cookie, kind, other, c),
                            !.how = kind]
  /\ UNCHANGED orchestratorVars

\* unsignCookie(cookie, secrets) on what signCookie produced, as it is or
\* tampered with
CodecVerify ==
  /\ codec.pc = "signed"
  /\ codec' = [codec EXCEPT !.pc = "verified",
                            !.result = unsignCookie(codec.cookie, codec.secrets)]
  /\ UNCHANGED orchestratorVars

\* unsignCookie(value, secrets) on a value that was never signed
CodecVerifyRaw ==
  /\ codec.pc = "input"
  /\ codec' = [codec EXCEPT !.pc = "verified", !.cookie = codec.value,
                            !.how = "raw",
                            !.result = unsignCookie(codec.value, codec.secrets)]
  /\ UNCHANGED orchestratorVars

NextCodec ==
  \/ CodecSign
  \/ \E kind \in Tamperings, other \in Replacements,
        c \in {B64Char(n) : n \in 0..63} :
       CodecTamper(kind, other, c)
  \/ CodecVerify
  \/ CodecVerifyRaw

SpecCodec == InitCodec /\ [][NextCodec]_vars

\* ------------------------------------------------------------ termination
\* one request: useSession, then the operations of the handler on the entity
InitLive ==
  /\ codec = IdleCodec
  /\ overlap = FALSE
  /\ config \in Configs
  /\ storage \in InitialStorages
  /\ storage0 = storage
  /\ reqCookie = [e \in Events |-> NotArrived]
  /\ ctx = [e \in Events |-> EmptyContext]
  /\ hdr = [e \in Events |-> NoHeader]
  /\ task = [t \in Tasks |-> IdleTask]
  /\ ent = [t \in Tasks |-> NoEntity]
  /\ log = [t \in Tasks |-> <<>>]
  /\ failures = 0
  /\ ops = MaxOps

\* the calls the application makes
Calls ==
  \/ \E c \in CookieInputs : UseSessionCookie(1, 1, c)
  \/ \E gid \in Sids, c \in CookieInputs : UseSessionNoCookie(1, 1, gid, c)
  \/ \E d \in DataValues : SaveCall(1, d)
  \/ ReloadCall(1)
  \/ DestroyCall(1)
  \/ RegenerateCall(1)

\* a store operation or a cryptographic operation responds, with a result or
\* with an error
Responds ==
  \/ UnsignAccept(1)
  \/ \E gid \in Sids : UnsignReject(1, gid)
  \/ GetEffect(1)
  \/ GetFail(1)
  \/ NewEmit(1)
  \/ SaveEffect(1)
  \/ SaveFail(1)
  \/ ExistingEmit(1)
  \/ TouchEffect(1)
  \/ TouchFail(1)
  \/ SaveSetEffect(1)
  \/ SaveSetFail(1)
  \/ ReloadGetEffect(1)
  \/ ReloadGetFail(1)
  \/ DestroyEffect(1)
  \/ DestroyFail(1)
  \/ RegenDestroyEffect(1)
  \/ RegenDestroyFail(1)
  \/ RegenSign(1)
  \/ RegenSetEffect(1)
  \/ RegenSetFail(1)

\* the code that runs once an awaited promise has settled
Continues ==
  \/ NewAttach(1)
  \/ SaveResume(1)
  \/ ExistingProceed(1)
  \/ TouchResume(1)
  \/ Finish(1)
  \/ SaveReturn(1)
  \/ ReloadFound(1)
  \/ \E gid \in Sids : ReloadGenerate(1, gid)
  \/ ReloadGenerated(1)
  \/ DestroyReturn(1)
  \/ \E gid \in Sids : RegenResume(1, gid)
  \/ RegenReturn(1)

NextLive == Calls \/ Responds \/ Continues

\* a store operation or a cryptographic operation has been called and has
\* not responded yet: the states in which Responds is enabled
ResponsePending ==
  \/ task[1].pc \in {"unsign", "getCall", "getRet", "newSign", "saveCall",
                     "touchCall"}
  \/ ent[1].op = "save" /\ ent[1].pc = "set"
  \/ ent[1].op = "reload" /\ ent[1].pc = "get"
  \/ ent[1].op = "destroy" /\ ent[1].pc = "destroy"
  \/ ent[1].op = "regenerate" /\ ent[1].pc \in {"destroy", "set"}
  \/ ent[1].signing

\* weak fairness of Responds, with its enabling condition written out
EveryOperationResponds ==
  []<>(~ResponsePending) \/ []<><<Responds>>_vars

\* every pending operation responds, and the event loop runs every
\* continuation that is ready
SpecLive ==
  InitLive /\ [][NextLive]_vars /\ EveryOperationResponds /\ WF_vars(Continues)

\* ------------------------------------------------- the configured maxAge
\* one useSession invocation under configurations that leave cookie.maxAge
\* out or give a number for it
ConfiguredMaxAges == {NotGiven, Given(0), Given(3600)}

InitMaxAge ==
  /\ codec = IdleCodec
  /\ overlap = FALSE
  /\ config \in {[c EXCEPT !.cookieMaxAge = m] :
                   c \in Configs, m \in ConfiguredMaxAges}
  /\ storage \in InitialStorages
  /\ storage0 = storage
  /\ reqCookie = [e \in Events |-> NotArrived]
  /\ ctx = [e \in Events |-> EmptyContext]
  /\ hdr = [e \in Events |-> NoHeader]
  /\ task = [t \in Tasks |-> IdleTask]
  /\ ent = [t \in Tasks |-> NoEntity]
  /\ log = [t \in Tasks |-> <<>>]
  /\ failures = 0
  /\ ops = 0

SpecMaxAge == InitMaxAge /\ [][UseSessionOnce]_vars

\* ------------------------------------------- UnstorageSessionStore alone
\* one store on a storage it shares with other keys; its methods are
\* called one after the other
MaxStoreOps == 3

StoreIds == {<<"a">>, <<"b">>}

StoreData == {<<"foo">>, <<"bar">>}

CustomPrefix == <<"c">>

CustomTtl == 12345

\* a TTL function: (data) => ttl
TtlFunctions ==
  { [d \in StoreData |-> 999],
    [d \in StoreData |-> 0],
    [d \in StoreData |-> IF d = <<"foo">> THEN 60 ELSE 0 - 1] }

\* new UnstorageSessionStore(storage, options?)
StoreOptions ==
  {[prefix |-> p, ttlKind |-> "number", ttl |-> n, ttlOf |-> <<>>] :
     p \in {DefaultPrefix, CustomPrefix}, n \in {DefaultTtl, CustomTtl, 0}}
  \cup
  {[prefix |-> p, ttlKind |-> "function", ttl |-> 0, ttlOf |-> f] :
     p \in {DefaultPrefix, CustomPrefix}, f \in TtlFunctions}

\* the keys of the shared storage: those of the two prefixes, and keys that
\* only begin like a prefix
SharedKeys ==
  {p \o <<":">> \o sid : p \in {DefaultPrefix, CustomPrefix},
                           sid \in StoreIds}
  \cup {p \o sid : p \in {DefaultPrefix, CustomPrefix}, sid \in StoreIds}

\* what other users of the storage have put there
ForeignData == <<"other">>

\* storage.getKeys(base) without a base: every key that holds an item
GetAllKeys(kv, base) == {k \in DOMAIN kv : kv[k].present}

\* storage.getKeys(base): the keys under `base:` that hold an item
GetKeys(kv, base) ==
  {k \in DOMAIN kv :
     /\ kv[k].present
     /\ Len(k) > Len(base)
     /\ SubSeq(k, 1, Len(base) + 1) = base \o <<":">>}

\* clear(): removeItem for each of getAllKeys()
StoreClear(kv, opts) ==
  [k \in DOMAIN kv |-> IF k \in GetKeys(kv, opts.prefix) THEN NoItem ELSE kv[k]]

\* length(): (await getAllKeys()).length
StoreLength(kv, opts) == Cardinality(GetKeys(kv, opts.prefix))

\* all(): the values of getItems(await getAllKeys()), as a count per value
StoreAll(kv, opts) ==
  [d \in StoreData \cup {ForeignData} |->
     Cardinality({k \in GetKeys(kv, opts.prefix) : kv[k].value = d})]

NoneListed == [d \in StoreData \cup {ForeignData} |-> 0]

\* the call history of an id: its latest set (a touch is a set) or destroy,
\* and whether clear was called after it
NoWrite == [op |-> "none", data |-> Null]

Wrote(op, sid, data) ==
  IF op \in {"set", "touch"}
  THEN [codec.lastWrite EXCEPT ![sid] = [op |-> "set", data |-> data]]
  ELSE IF op = "destroy"
  THEN [codec.lastWrite EXCEPT ![sid] = [op |-> "destroy", data |-> Null]]
  ELSE codec.lastWrite

ClearedSince(op, sid) ==
  IF op \in {"set", "touch", "destroy"}
  THEN [codec.cleared EXCEPT ![sid] = FALSE]
  ELSE IF op = "clear" THEN [id \in StoreIds |-> TRUE]
  ELSE codec.cleared

StoreState(opts, kv) ==
  [pc |-> "store", opts |-> opts, kv |-> kv, before |-> kv, op |-> "none",
   sid |-> <<>>, data |-> Null, got |-> Null, count |-> 0,
   listed |-> NoneListed, left |-> MaxStoreOps,
   lastWrite |-> [sid \in StoreIds |-> NoWrite],
   cleared |-> [sid \in StoreIds |-> FALSE]]

InitStore ==
  /\ codec \in {StoreState(o, kv) :
       o \in StoreOptions,
       kv \in {[k \in SharedKeys |-> NoItem],
               [k \in SharedKeys |-> Item(ForeignData, DefaultTtl)]}}
  /\ overlap = FALSE
  /\ config = CHOOSE c \in Configs : TRUE
  /\ storage = [k \in StorageKeys |-> NoItem]
  /\ storage0 = storage
  /\ reqCookie = [e \in Events |-> NotArrived]
  /\ ctx = [e \in Events |-> EmptyContext]
  /\ hdr = [e \in Events |-> NoHeader]
  /\ task = [t \in Tasks |-> IdleTask]
  /\ ent = [t \in Tasks |-> NoEntity]
  /\ log = [t \in Tasks |-> <<>>]
  /\ failures = 0
  /\ ops = 0

\* one method call, from its call to its result
Called(op, sid, data, kv, got, count, listed) ==
  /\ codec.left > 0
  /\ codec' = [codec EXCEPT !.op = op, !.sid = sid, !.data = data,
                            !.before = codec.kv, !.kv = kv, !.got = got,
                            !.count = count, !.listed = listed,
                            !.left = @ - 1,
                            !.lastWrite = Wrote(op, sid, data),
                            !.cleared = ClearedSince(op, sid)]
  /\ UNCHANGED orchestratorVars

StoreSetCalled(sid, data) ==
  Called("set", sid, data, StoreSet(codec.kv, codec.opts, sid, data),
         Null, 0, NoneListed)

StoreTouchCalled(sid, data) ==
  Called("touch", sid, data, StoreTouch(codec.kv, codec.opts, sid, data),
         Null, 0, NoneListed)

StoreGetCalled(sid) ==
  Called("get", sid, Null, codec.kv, StoreGet(codec.kv, codec.opts, sid),
         0, NoneListed)

StoreDestroyCalled(sid) ==
  Called("destroy", sid, Null, StoreDestroy(codec.kv, codec.opts, sid),
         Null, 0, NoneListed)

StoreClearCalled ==
  Called("clear", <<>>, Null, StoreClear(codec.kv, codec.opts), Null, 0,
         NoneListed)

StoreLengthCalled ==
  Called("length", <<>>, Null, codec.kv, Null,
         StoreLength(codec.kv, codec.opts), NoneListed)

StoreAllCalled ==
  Called("all", <<>>, Null, codec.kv, Null, 0, StoreAll(codec.kv, codec.opts))

NextStore ==
  \/ \E sid \in StoreIds, data \in StoreData : StoreSetCalled(sid, data)
  \/ \E sid \in StoreIds, data \in StoreData : StoreTouchCalled(sid, data)
  \/ \E sid \in StoreIds : StoreGetCalled(sid)
  \/ \E sid \in StoreIds : StoreDestroyCalled(sid)
  \/ StoreClearCalled
  \/ StoreLengthCalled
  \/ StoreAllCalled

SpecStore == InitStore /\ [][NextStore]_vars

\* ------------------------------------------------------- the key caches
\* calls of getCryptoSignKey, getCryptoVerifyKey and signCookie, which may
\* overlap, on the two module-level caches _signKeys and _verifyKeys
MaxKeyCalls == 2

KeyCalls == 1..MaxKeyCalls

KeyFunctions == {"getCryptoSignKey", "getCryptoVerifyKey"}

\* a CryptoKey object: the key material and the identity of the object
Handle(key, ref) == [key |-> key, ref |-> ref]

\* what a cache holds for a name that was never assigned: undefined
NoKey == Handle([raw |-> <<>>, usage |-> "absent"], 0)

\* the member of Object.prototype an inherited name finds in a cache
InheritedHandle == Handle(InheritedMember, 0)

\* _signKeys = {} / _verifyKeys = {}
EmptyCache == [secret \in SecretPool |-> NoKey]

\* cache[secret]: the own property, else what the prototype chain holds
ReadCache(cache, secret) ==
  IF cache[secret] # NoKey THEN cache[secret]
  ELSE IF secret \in InheritedNames THEN InheritedHandle
  ELSE NoKey

\* `if (cache[secret])`
Truthy(handle) == handle # NoKey

\* !value, !secret: the empty string, or undefined
Falsy(str) == str = <<>> \/ str = Null

UsageOf(fn) == IF fn = "getCryptoVerifyKey" THEN "verify" ELSE "sign"

IdleCall ==
  [fn |-> "none", pc |-> "idle", value |-> <<>>, secret |-> <<>>,
   handle |-> NoKey, result |-> <<>>, error |-> "", completed |-> {}]

IdleKeys ==
  [pc |-> "keys", signKeys |-> EmptyCache, verifyKeys |-> EmptyCache,
   calls |-> [c \in KeyCalls |-> IdleCall], minted |-> 0]

InitKeys ==
  /\ codec = IdleKeys
  /\ overlap = FALSE
  /\ config = CHOOSE c \in Configs : TRUE
  /\ storage = [k \in StorageKeys |-> NoItem]
  /\ storage0 = storage
  /\ reqCookie = [e \in Events |-> NotArrived]
  /\ ctx = [e \in Events |-> EmptyContext]
  /\ hdr = [e \in Events |-> NoHeader]
  /\ task = [t \in Tasks |-> IdleTask]
  /\ ent = [t \in Tasks |-> NoEntity]
  /\ log = [t \in Tasks |-> <<>>]
  /\ failures = 0
  /\ ops = 0

\* calls begin in the order of their numbers
CallMayStart(c) ==
  /\ codec.calls[c].pc = "idle"
  /\ \A b \in KeyCalls : b < c => codec.calls[b].pc # "idle"

\* the calls that have returned or thrown
Completed == {b \in KeyCalls : codec.calls[b].pc \in {"returned", "threw"}}

\* a lookup that never finds a cached handle
LookedUpAfresh(c, fn, value, secret, next) ==
  [IdleCall EXCEPT !.fn = fn, !.value = value, !.secret = secret,
                   !.completed = Completed, !.pc = "import"]

\* the body of getCryptoSignKey / getCryptoVerifyKey up to its await: the
\* cached handle is returned, or subtle.importKey is under way; next is
\* where the caller goes on once it has the handle
LookedUp(c, fn, value, secret, next) ==
  LET cache == IF fn = "getCryptoVerifyKey" THEN codec.verifyKeys
               ELSE codec.signKeys
      found == ReadCache(cache, secret)
      call == [IdleCall EXCEPT !.fn = fn, !.value = value, !.secret = secret,
                               !.completed = Completed]
  IN IF Truthy(found)
     THEN [call EXCEPT !.pc = next, !.handle = found]
     ELSE [call EXCEPT !.pc = "import"]

\* getCryptoSignKey(secret) or getCryptoVerifyKey(secret) is called
KeyCall(c, fn, secret) ==
  /\ CallMayStart(c)
  /\ codec' = [codec EXCEPT !.calls[c] = LookedUp(c, fn, <<>>, secret, "returned")]
  /\ UNCHANGED orchestratorVars

\* subtle.importKey resolves with a new CryptoKey: cache[secret] = cryptoKey
\* and the key is returned
KeyImported(c) ==
  /\ codec.calls[c].pc = "import"
  /\ LET call == codec.calls[c]
         usage == UsageOf(call.fn)
         handle == Handle(ImportKey(call.secret, usage), codec.minted + 1)
         next == IF call.fn = "signCookie" THEN "sign" ELSE "returned"
     IN codec' = [codec EXCEPT
          !.minted = @ + 1,
          !.signKeys = IF usage = "sign"
                       THEN [@ EXCEPT ![call.secret] = handle] ELSE @,
          !.verifyKeys = IF usage = "verify"
                         THEN [@ EXCEPT ![call.secret] = handle] ELSE @,
          !.calls[c] = [@ EXCEPT !.pc = next, !.handle = handle]]
  /\ UNCHANGED orchestratorVars

\* the values and secrets signCookie is called with
SignValues == {<<>>, Null, SidA, SidB}

SignSecrets == SecretPool \cup {<<>>, Null}

\* a signCookie that looks at the secret before the value
SignCookieCallSecretFirst(c, value, secret) ==
  /\ CallMayStart(c)
  /\ LET threw(msg) == [IdleCall EXCEPT !.fn = "signCookie", !.pc = "threw",
                                        !.value = value, !.secret = secret,
                                        !.error = msg, !.completed = Completed]
     IN codec' = [codec EXCEPT !.calls[c] =
          IF Falsy(secret) THEN threw("[h3-session] No secret was provided!")
          ELSE IF Falsy(value) THEN threw("[h3-session] No value was provided!")
          ELSE LookedUp(c, "signCookie", value, secret, "sign")]
  /\ UNCHANGED orchestratorVars

\* signCookie(value, secret) is called: it throws for a missing value, then
\* for a missing secret, else awaits getCryptoSignKey(secret)
SignCookieCall(c, value, secret) ==
  /\ CallMayStart(c)
  /\ LET threw(msg) == [IdleCall EXCEPT !.fn = "signCookie", !.pc = "threw",
                                        !.value = value, !.secret = secret,
                                        !.error = msg, !.completed = Completed]
     IN codec' = [codec EXCEPT !.calls[c] =
          IF Falsy(value) THEN threw("[h3-session] No value was provided!")
          ELSE IF Falsy(secret) THEN threw("[h3-session] No secret was provided!")
          ELSE LookedUp(c, "signCookie", value, secret, "sign")]
  /\ UNCHANGED orchestratorVars

\* signCookie with the key: subtle.sign, base64 without padding, the result
SignCookieSigned(c) ==
  /\ codec.calls[c].pc = "sign"
  /\ LET call == codec.calls[c]
         signature == SubtleSign(call.handle.key, TextEncode(call.value))
         b64Signature == StripPadding(Base64Encode(signature))
     IN codec' = [codec EXCEPT !.calls[c] =
          IF ~IsCryptoKey(call.handle.key, "sign")
          THEN [@ EXCEPT !.pc = "threw", !.error = "TypeError"]
          ELSE [@ EXCEPT !.pc = "returned",
                         !.result = <<"s", ":">> \o call.value \o <<".">>
                                      \o b64Signature]]
  /\ UNCHANGED orchestratorVars

NextKeys ==
  \/ \E c \in KeyCalls, fn \in KeyFunctions, secret \in SecretPool :
       KeyCall(c, fn, secret)
  \/ \E c \in KeyCalls : KeyImported(c)
  \/ \E c \in KeyCalls, value \in SignValues, secret \in SignSecrets :
       SignCookieCall(c, value, secret)
  \/ \E c \in KeyCalls : SignCookieSigned(c)

SpecKeys == InitKeys /\ [][NextKeys]_vars


\* ------------------------------------------------------------- properties
\* the positions in invocation t's log of the calls of op, and their number
CallsOf(t, op) == {i \in 1..Len(log[t]) : log[t][i].op = op}

Times(t, op) == Cardinality(CallsOf(t, op))

\* the calls entity t's operation `via` has made
CallsVia(t, via) == {i \in 1..Len(log[t]) : log[t][i].via = via}

\* unsignCookie tabulated for the cookies requests carry and the secret
\* lists of the configurations
CarriedCookies ==
  CookieInputs \cup {NotArrived} \cup {Signed(sid, NewSecret) : sid \in Sids}

UnsignTable ==
  [c \in CarriedCookies |->
     [l \in {normalizedSecrets(cfg) : cfg \in Configs} |-> unsignCookie(c, l)]]

\* what verifying the cookie of invocation t's request gives
Verified(t) ==
  LET c == reqCookie[task[t].event]
      l == normalizedSecrets(config)
  IN IF c \in DOMAIN UnsignTable /\ l \in DOMAIN UnsignTable[c]
     THEN UnsignTable[c][l]
     ELSE unsignCookie(c, l)

Ordinary(secret) == secret \notin InheritedNames

InList(secret, secrets) == \E i \in 1..Len(secrets) : secrets[i] = secret

\* C2: for every non-empty value v, every non-empty secret s and every secret
\* list S that holds s at any position, signCookie(v, s) gives a cookie and
\* unsignCookie of that cookie against S returns exactly v.
C2_SignThenVerifyReturnsValue ==
  (codec.pc # "off" /\ codec.value # <<>> /\ codec.secret # <<>>) =>
    /\ codec.pc # "threw"
    /\ (/\ codec.pc = "verified"
        /\ codec.how = "signed"
        /\ InList(codec.secret, codec.secrets))
       => codec.result = Unsigned(codec.value)

\* C2, for secrets that name no inherited property (the signing secret and
\* the secrets of the list): the round trip returns exactly v.
C2_OrdinarySecretsRoundTrip ==
  (/\ codec.pc # "off" /\ codec.value # <<>> /\ codec.secret # <<>>
   /\ Ordinary(codec.secret)
   /\ \A i \in 1..Len(codec.secrets) : Ordinary(codec.secrets[i])) =>
    /\ codec.pc # "threw"
    /\ (/\ codec.pc = "verified"
        /\ codec.how = "signed"
        /\ InList(codec.secret, codec.secrets))
       => codec.result = Unsigned(codec.value)

\* the signature part of the cookie decodes to the HMAC of message under a
\* secret of the list
SignatureIsHmacOf(cookie, message, secrets) ==
  LET parsed == parseCookieValue(cookie)
  IN /\ parsed.matched
     /\ parsed.message = message
     /\ \E i \in 1..Len(secrets) :
          Base64Decode(parsed.signature)
            = HmacSha256(TextEncode(secrets[i]), TextEncode(message))

\* C3: unsignCookie(c, S) returns an identifier v only if the signature part
\* of c is the HMAC of v under some secret of S; unsignCookie(signCookie(v, s),
\* S) is false whenever s is not in S (S empty included); and a signed cookie
\* whose identifier was replaced by another, the signature kept, gives false.
C3_VerifyAcceptsOnlyHmac ==
  codec.pc = "verified" =>
    /\ codec.result.ok =>
         SignatureIsHmacOf(codec.cookie, codec.result.value, codec.secrets)
    /\ (codec.how = "signed" /\ ~InList(codec.secret, codec.secrets))
         => codec.result = UnsignFalse
    /\ codec.how = "identifier" => codec.result = UnsignFalse

\* C3, in the form that holds for every secret list: an identifier is never
\* returned without a matching HMAC; where the claim says false the result is
\* no identifier (false, or a rejection when the list holds an inherited name)
C3_NeverAcceptsWithoutHmac ==
  codec.pc = "verified" =>
    /\ codec.result.ok =>
         SignatureIsHmacOf(codec.cookie, codec.result.value, codec.secrets)
    /\ (codec.how = "signed" /\ ~InList(codec.secret, codec.secrets))
         => ~codec.result.ok
    /\ codec.how = "identifier" => ~codec.result.ok
    /\ (\A i \in 1..Len(codec.secrets) : Ordinary(codec.secrets[i]))
         => codec.result.error = ""


\* the last element of the normalized secret list
LastSecret == normalizedSecrets(config)[Len(normalizedSecrets(config))]

\* signCookie tabulated for the identifiers and the secrets of the
\* configurations
SignTable ==
  [sid \in Sids |-> [secret \in {OldSecret, NewSecret} |-> Signed(sid, secret)]]

\* the identifier sid signed with the last secret
SignedWithLast(sid) ==
  IF sid \in DOMAIN SignTable /\ LastSecret \in DOMAIN SignTable[sid]
  THEN SignTable[sid][LastSecret]
  ELSE Signed(sid, LastSecret)

\* the cookie invocation t's request carries was looked at and rejected
CookieRejected(t) ==
  /\ task[t].event # 0
  /\ Times(t, "getCookie") = 1
  /\ task[t].pc # "unsign"
  /\ ~Verified(t).ok

\* C1: useSession calls store.get only with the identifier a successful
\* verification of the request's cookie returned. When the cookie is absent,
\* malformed or fails verification, useSession makes no store.get call, does
\* not fail (unless the save of a saveUninitialized session does) and attaches
\* a session whose id is the value genid returned.
C1_StoreReadOnlyForVerifiedId ==
  \A t \in Tasks :
    /\ \A i \in CallsOf(t, "store.get") :
         /\ Verified(t).ok
         /\ log[t][i].sid = Verified(t).value
    /\ CookieRejected(t) =>
         /\ Times(t, "store.get") = 0
         /\ Times(t, "genid") = 1
         /\ \A i \in CallsOf(t, "genid") : task[t].sid = log[t][i].sid
         /\ task[t].pc = "failed" =>
              task[t].error = "store.set failed" /\ config.saveUninitialized
         /\ task[t].pc = "done" => ent[t].made
         /\ ent[t].made => ent[t].id = task[t].sid

\* a forged cookie that names SidA was rejected and the session got the
\* identifier genid returned
C1_ForgedCookieGetsFreshId ==
  \E t \in Tasks :
    /\ task[t].pc = "done"
    /\ reqCookie[task[t].event] = WithIdentifier(Signed(SidB, NewSecret), SidA)
    /\ CookieRejected(t)
    /\ ent[t].id = SidB
    /\ ctx[task[t].event].sessionId = SidB

\* C4: when store.get fails, useSession fails with that error: the invocation
\* calls neither genid nor generate, attaches no session, emits no cookie and
\* writes nothing to the store; the storage is as it was, and a later
\* invocation with the same cookie loads what the storage held.
C4_StoreGetFailurePropagates ==
  /\ \A t \in Tasks : task[t].error = "store.get failed" =>
       /\ task[t].pc = "failed"
       /\ ~ent[t].made
       /\ ctx[task[t].event].session # t
       /\ \A i \in 1..Len(log[t]) : log[t][i].op \in {"getCookie", "store.get"}
  /\ (~overlap /\ task[1].error = "store.get failed") =>
       /\ task[2].pc = "idle" =>
            /\ storage = storage0
            /\ ctx[task[1].event] = EmptyContext
            /\ hdr[task[1].event] = NoHeader
       /\ (/\ task[2].pc = "done"
           /\ reqCookie[task[2].event] = reqCookie[task[1].event]) =>
            /\ task[2].sid = task[1].sid
            /\ task[2].data = StoreGet(storage0, DefaultStoreOptions, task[1].sid)
            /\ ent[2].made /\ ent[2].id = task[1].sid

\* the first request failed on store.get, the next one, with the same cookie,
\* got the stored data
C4_LaterRequestLoadsOriginal ==
  /\ task[1].error = "store.get failed"
  /\ task[1].pc = "failed"
  /\ task[2].pc = "done"
  /\ task[2].event = 2
  /\ reqCookie[2] = reqCookie[1]
  /\ task[2].data = StoredData
  /\ ent[2].data = StoredData

\* C5: when the cookie verifies to X and store.get(X) returns nothing, the
\* session attached has id X and the data generate produced, genid is not
\* called, and the cookie emitted is the signed form of X.
C5_MissingDataKeepsIdentifier ==
  \A t \in Tasks :
    (/\ task[t].event # 0
     /\ ent[t].made
     /\ Times(t, "store.get") = 1
     /\ task[t].data = Null) =>
      /\ Verified(t).ok
      /\ ent[t].id = Verified(t).value
      /\ ctx[task[t].event].session = t =>
           ctx[task[t].event].sessionId = Verified(t).value
      /\ Times(t, "genid") = 0
      /\ Times(t, "generate") = 1
      /\ CallsVia(t, "save") = {} => ent[t].data = GenData
      /\ Times(t, "setCookie") >= 1
      /\ \A i \in CallsOf(t, "setCookie") :
           log[t][i].val = SignedWithLast(Verified(t).value)

\* a validly signed cookie for SidB, nothing stored under SidB: the session
\* has id SidB and the response carries SidB signed
C5_ReusedIdentifier ==
  \E t \in Tasks :
    /\ task[t].pc = "done"
    /\ task[t].branch = "reuse"
    /\ reqCookie[task[t].event] = Signed(SidB, NewSecret)
    /\ ent[t].id = SidB
    /\ ent[t].data = GenData
    /\ hdr[task[t].event].value = Signed(SidB, NewSecret)

\* C6: for a new session with a fresh identifier N: with saveUninitialized
\* false the store has no entry under N, during useSession, when it returns
\* and until save() or regenerate() is called on the entity; with
\* saveUninitialized true, when useSession has returned the store holds the
\* generated data under N.
C6_NewSessionStoredOnlyWhenAsked ==
  \A t \in Tasks :
    (/\ task[t].branch = "new"
     /\ ~storage0[getKey(DefaultStoreOptions, task[t].sid)].present) =>
      /\ (/\ ~config.saveUninitialized
          /\ CallsVia(t, "save") = {}
          /\ CallsVia(t, "regenerate") = {})
         => ~storage[getKey(DefaultStoreOptions, task[t].sid)].present
      /\ (/\ config.saveUninitialized
          /\ task[t].pc \in {"finish", "done"}
          /\ CallsVia(t, "save") = {}
          /\ CallsVia(t, "regenerate") = {}
          /\ CallsVia(t, "destroy") = {})
         => StoreGet(storage, DefaultStoreOptions, task[t].sid) = GenData

\* a new session without saveUninitialized, whose handler has assigned a
\* cookie attribute: still nothing is stored under its identifier
C6_UnsavedAfterReturn ==
  \E t \in Tasks :
    /\ task[t].branch = "new"
    /\ task[t].pc = "done"
    /\ ~config.saveUninitialized
    /\ CallsVia(t, "assign") # {}
    /\ ~storage[getKey(DefaultStoreOptions, task[t].sid)].present

\* C7: when the cookie verifies to X and store.get(X) returns data D, the
\* session attached has id X and data D, neither genid nor generate is called,
\* and, when the store has touch, store.touch(X, D) is called exactly once,
\* before the session is attached (and not at all otherwise).
C7_ExistingSessionLoadedAndTouched ==
  \A t \in Tasks :
    (/\ task[t].event # 0
     /\ Times(t, "store.get") = 1
     /\ task[t].data # Null) =>
      /\ Times(t, "genid") = 0
      /\ Times(t, "generate") = 0
      /\ Times(t, "store.touch") <= 1
      /\ \A i \in CallsOf(t, "store.touch") :
           /\ log[t][i].sid = Verified(t).value
           /\ log[t][i].data = task[t].data
           /\ config.hasTouch
      /\ ent[t].made =>
           /\ ent[t].id = Verified(t).value
           /\ CallsVia(t, "save") = {} => ent[t].data = task[t].data
           /\ config.hasTouch => Times(t, "store.touch") = 1
           /\ task[t].pc \in {"finish", "done"}

\* stored data was loaded under SidA and touched once
C7_LoadedAndTouched ==
  \E t \in Tasks :
    /\ task[t].pc = "done"
    /\ task[t].branch = "existing"
    /\ config.hasTouch
    /\ Times(t, "store.touch") = 1
    /\ ent[t].id = SidA
    /\ ent[t].data = StoredData

\* C8: the data stored under X right after the touch of a useSession
\* invocation equals the data stored under X right before it, whatever other
\* requests did between that invocation's get and its touch (stated for the
\* runs in which no request creates a new session, so that what lands between
\* the get and the touch is the save() or destroy() of another request).
C8_TouchKeepsStoredData ==
  [][\A t \in Tasks :
       (/\ task[t].pc = "touchCall" /\ task'[t].pc = "touchRet"
        /\ \A u \in Tasks : task[u].branch # "new") =>
         StoreGet(storage', DefaultStoreOptions, task[t].sid)
           = StoreGet(storage, DefaultStoreOptions, task[t].sid)]_vars

\* C9: a useSession invocation on a request whose context has a session
\* attached returns at once whatever config it is passed: it does not fail on
\* the config, reads no cookie, calls neither genid nor generate nor the
\* store, emits no cookie and leaves the context as it is.
C9_AttachedSessionSkips ==
  [][\A t \in Tasks :
       (/\ task[t].pc = "idle"
        /\ task'[t].pc # "idle"
        /\ ctx[task'[t].event].session # NoSession) =>
         /\ task'[t].pc = "done"
         /\ task'[t].error = ""
         /\ UNCHANGED <<ctx, hdr, storage, log, ent, failures, reqCookie>>]_vars

\* an invocation passed a config without store returned on a request that
\* had its session
C9_SkippedWithDefectiveConfig ==
  \E t \in Tasks :
    /\ task[t].branch = "skipped"
    /\ task[t].pc = "done"
    /\ task[t].passed = "no store"
    /\ ctx[task[t].event].session # NoSession
    /\ log[t] = <<>>

\* C10: every session cookie value emitted (at creation, on a cookie
\* attribute assignment, on destroy, after regenerate) is the identifier it is
\* emitted for signed with the last element of the normalized secret list.
C10_CookiesSignedWithLastSecret ==
  /\ \A t \in Tasks : \A i \in CallsOf(t, "setCookie") :
       log[t][i].val = SignedWithLast(log[t][i].sid)
  /\ \A e \in Events : hdr[e].set =>
       \E sid \in Sids : hdr[e].value = SignedWithLast(sid)

\* the incoming cookie verified under the older secret; cookies were emitted
\* at creation, after regenerate and on an attribute assignment
C10_OldSecretCookieResigned ==
  /\ Len(normalizedSecrets(config)) = 2
  /\ reqCookie[1] = Signed(SidA, OldSecret)
  /\ \A via \in {"useSession", "regenerate", "assign"} :
       \E i \in CallsOf(1, "setCookie") : log[1][i].via = via
  /\ hdr[1].set

\* C11: once useSession has returned, a step that changes expires, maxAge,
\* httpOnly, secure or sameSite of session.cookie leaves the request's
\* Set-Cookie header carrying the whole descriptor, the new value included,
\* and the signed value the cookie holds
C11_AssignmentReemitsHeader ==
  [][\A p \in MutableProperties :
       (ent[1].made /\ ent'[1].cookie[p] # ent[1].cookie[p])
         => /\ hdr'[1].set
            /\ hdr'[1].attrs[p] = ent'[1].cookie[p]
            /\ hdr'[1].attrs = ent'[1].cookie
            /\ hdr'[1].value = ent[1].signedCookie]_vars

\* the handler has assigned session.cookie.expires and session.cookie.sameSite
C11_ExpiresAndSameSiteAssigned ==
  /\ ent[1].made
  /\ task[1].pc = "done"
  /\ ent[1].cookie.expires = <<"date1">>
  /\ ent[1].cookie.sameSite = <<"lax">>
  /\ hdr[1].attrs.expires = <<"date1">>
  /\ hdr[1].value = ent[1].signedCookie

\* C12: once the descriptor of session.cookie is constructed, its name, path
\* and domain never change, and neither do those of the emitted header
C12_FixedPropertiesRejected ==
  [][\A p \in FixedProperties :
       ent[1].made
         => /\ ent'[1].cookie[p] = ent[1].cookie[p]
            /\ hdr'[1].attrs[p] = hdr[1].attrs[p]]_vars

\* the last call of the given kind that operation `via` of entity t made
LastCall(t, op, via) ==
  LET made == {i \in CallsOf(t, op) : log[t][i].via = via}
  IN log[t][CHOOSE i \in made : \A j \in made : j <= i]

CookieUpdated(t) ==
  \E i \in CallsOf(t, "setCookie") :
    /\ log[t][i].via = "regenerate"
    /\ \A j \in CallsOf(t, "genid") : log[t][j].via = "regenerate" => j < i

\* C14: regenerate() resolves only from a state in which its cookie update
\* and its store save have both completed; a step in which one of its store
\* calls or its signing fails leaves it rejected, and a rejected regenerate()
\* never resolves
C14_RegenerateAwaitsBoth ==
  [][/\ (ent[1].op = "regenerate" /\ ent'[1].result = "ok")
          => /\ ~ent[1].signing /\ CookieUpdated(1)
             /\ ent[1].pc = "ret"
             /\ storage[getKey(DefaultStoreOptions, ent[1].id)].present
     /\ (CallsVia(1, "regenerate") # {} /\ failures' > failures)
          => ent'[1].result = "failed"
     /\ (ent[1].signing /\ ~ent'[1].signing /\ log' = log)
          => ent'[1].result = "failed"
     /\ ent[1].result = "failed" => ent'[1].result # "ok"]_vars

\* the save of a regenerate() has completed while its cookie update has not,
\* and regenerate() has not resolved
C14_SaveDoneCookiePending ==
  /\ ent[1].op = "regenerate" /\ ent[1].pc = "ret"
  /\ ent[1].signing
  /\ ent[1].result = ""
  /\ storage[getKey(DefaultStoreOptions, ent[1].id)].value = GenData

\* C15: the step that begins destroy() sets the descriptor's maxAge to 0,
\* re-emits the header with it and the signed value, and makes one
\* store.destroy call, with the current identifier; destroy() makes no
\* further call, never changes session.id or session.data, and when it
\* resolves the store holds no entry under the identifier
C15_DestroyExpiresAndRemoves ==
  [][/\ (ent[1].op # "destroy" /\ ent'[1].op = "destroy")
          => /\ ent'[1].cookie = [ent[1].cookie EXCEPT !.maxAge = 0]
             /\ hdr'[1] = Header(ent[1].signedCookie, ent'[1].cookie)
             /\ Len(log'[1]) = Len(log[1]) + 2
             /\ log'[1][Len(log[1]) + 1].op = "setCookie"
             /\ log'[1][Len(log[1]) + 2].op = "store.destroy"
             /\ log'[1][Len(log[1]) + 2].sid = ent[1].id
     /\ ent[1].op = "destroy" => log'[1] = log[1]
     /\ (ent[1].op = "destroy" \/ ent'[1].op = "destroy")
          => ent'[1].id = ent[1].id /\ ent'[1].data = ent[1].data
     /\ (ent[1].op = "destroy" /\ ent'[1].result = "ok")
          => ~storage'[getKey(DefaultStoreOptions, ent[1].id)].present]_vars

\* destroy() has resolved on a session that was loaded from the store
C15_StoredSessionDestroyed ==
  /\ CallsVia(1, "destroy") # {}
  /\ ent[1].op = "idle" /\ ent[1].result = "ok"
  /\ task[1].branch = "existing"
  /\ ent[1].id = SidA /\ ent[1].data = StoredData
  /\ ~storage[getKey(DefaultStoreOptions, SidA)].present
  /\ hdr[1].attrs.maxAge = 0

C17_ReloadReplacesData ==
  [][/\ (ent[1].op # "reload" /\ ent'[1].op = "reload")
          => log'[1] = Append(log[1],
               Call("store.get", "reload", ent[1].id, Null, <<>>))
     /\ (ent[1].op = "reload" \/ ent'[1].op = "reload")
          => /\ ent'[1].id = ent[1].id
             /\ ent'[1].cookie = ent[1].cookie
             /\ storage' = storage
             /\ hdr' = hdr
             /\ Times(1, "store.set")' = Times(1, "store.set")
             /\ Times(1, "setCookie")' = Times(1, "setCookie")
     /\ (ent[1].op = "reload" /\ ent'[1].result # "ok")
          => ent'[1].data = ent[1].data
     /\ (ent[1].op = "reload" /\ ent'[1].result = "ok")
          => LET entry == storage[getKey(DefaultStoreOptions, ent[1].id)]
             IN IF entry.present
                THEN ent'[1].data = entry.value
                ELSE /\ ent'[1].data = LastCall(1, "generate", "reload").data
                     /\ log[1][Len(log[1])].op = "generate"
     /\ (ent[1].op = "reload" /\ ent'[1].result = "failed")
          => failures' > failures /\ ent[1].pc = "get"
     /\ (ent[1].op = "reload" /\ failures' > failures)
          => ent'[1].result = "failed"]_vars

\* reload() has resolved with the stored data, replacing data the handler
\* had assigned
C17_AssignedDataReloaded ==
  /\ Times(1, "assign") = 1
  /\ CallsVia(1, "reload") # {}
  /\ ent[1].op = "idle" /\ ent[1].result = "ok"
  /\ task[1].branch = "existing"
  /\ ent[1].data = StoredData

\* the store write of a save() of entity x is applied in this step
SaveApplied(x) ==
  /\ ent[x].op = "save" /\ ent[x].pc = "set"
  /\ ent'[x].op = "save" /\ ent'[x].pc = "ret"

\* both requests hold the same identifier and the save() each of them
\* called has resolved
BothSaved ==
  /\ ent[1].made /\ ent[2].made
  /\ ent[1].id = ent[2].id
  /\ \A x \in Tasks :
       /\ CallsVia(x, "save") # {}
       /\ ent[x].op = "idle" /\ ent[x].result = "ok"

\* C18: the store write of a save() leaves under the identifier exactly the
\* data that save() passed, whatever was stored before; once both
\* invocations have returned the entry changes only when such a write is
\* applied; and once the saves of both requests have resolved the entry is
\* present and holds the whole data of one of the two
C18_LastWriteWins ==
  [][/\ \A x \in Tasks :
          SaveApplied(x)
            => storage'[getKey(DefaultStoreOptions, ent[x].id)] =
                 Item(LastCall(x, "store.set", "save").data, DefaultTtl)
     /\ ((\A t \in Tasks : task[t].pc = "done")
           /\ \A x \in Tasks : ~SaveApplied(x))
          => storage' = storage
     /\ BothSaved'
          => LET entry == storage'[getKey(DefaultStoreOptions, ent'[1].id)]
             IN /\ entry.present
                /\ entry.value \in
                     {LastCall(x, "store.set", "save").data : x \in Tasks}']_vars

\* two requests on one stored session have assigned different data and
\* saved; the store holds the data of the first request
C18_TwoSavesOneKept ==
  /\ BothSaved
  /\ ent[1].id = SidA
  /\ task[1].branch = "existing" /\ task[2].branch = "existing"
  /\ ent[1].data = AppValue(1) /\ ent[2].data = AppValue(2)
  /\ storage[getKey(DefaultStoreOptions, SidA)].value = AppValue(1)

\* invocation t returns in this step, having resolved a session
Returns(t) ==
  /\ task[t].pc # "done" /\ task'[t].pc = "done"
  /\ task'[t].branch \in {"new", "reuse", "existing"}

\* every other invocation made on the request of invocation t has failed
\* without attaching an entity
AloneOnRequest(t) ==
  \A u \in Tasks \ {t} :
    task[u].event = task[t].event => task[u].pc = "failed" /\ ~ent[u].made

\* C19: in the step in which a useSession invocation returns from one of
\* the three branches (any other invocation on the same request has failed
\* before attaching anything),
\* the context of its request holds the entity it created as session, that
\* entity's id as sessionId and the store as sessionStore; in the branch
\* without identifier the entity's id is what genid returned and its data
\* what generate returned
C19_ContextHoldsSessionOnReturn ==
  [][\A t \in Tasks :
       (Returns(t) /\ AloneOnRequest(t))
         => LET c == ctx'[task[t].event]
            IN /\ c.session = t
               /\ ent'[t].made
               /\ c.sessionId = ent'[t].id
               /\ c.sessionStore
               /\ task[t].branch = "new"
                    => /\ ent'[t].id = LastCall(t, "genid", "useSession").sid
                       /\ ent'[t].data = LastCall(t, "generate", "useSession").data]_vars

\* an invocation has returned from the branch without identifier with the
\* new session saved, and nothing has been done with the entity since
C19_NewSessionOnContext ==
  \E t \in Tasks :
    /\ task[t].pc = "done" /\ task[t].branch = "new"
    /\ config.saveUninitialized
    /\ CallsVia(t, "save") = {} /\ CallsVia(t, "destroy") = {}
    /\ ctx[task[t].event] =
         [session |-> t, sessionId |-> ent[t].id, sessionStore |-> TRUE]
    /\ ent[t].id = SidB /\ ent[t].data = GenData

\* the input is shorter than 46 characters, or does not begin with "s:", or
\* has no "." at (0-based) position length - 44
Malformed(value) ==
  \/ Len(value) < 46
  \/ value[1] # "s"
  \/ value[2] # ":"
  \/ value[Len(value) - 44 + 1] # "."

\* C20: unsignCookie called on a malformed input, with whatever secrets,
\* has returned false and has not thrown
C20_MalformedInputReturnsFalse ==
  (codec.pc = "verified" /\ Malformed(codec.cookie))
    => /\ ~codec.result.ok
       /\ codec.result.error = ""
       /\ codec.result = UnsignFalse

\* a signed cookie whose separator was replaced has been verified against
\* the secret that signed it
C20_SeparatorReplaced ==
  /\ codec.pc = "verified"
  /\ codec.how = "separator"
  /\ Len(codec.cookie) >= 46
  /\ InList(codec.secret, codec.secrets)
  /\ codec.result = UnsignFalse

\* C21: a signCookie call with an empty or missing value, or an empty or
\* missing secret, throws in the step in which it is made: the value error
\* when the value is missing, else the secret error; it returns nothing,
\* holds no key, leaves both caches as they were with no key derived, and
\* does nothing afterwards
C21_SignRejectsMissingInput ==
  [][\A c \in KeyCalls :
       LET before == codec.calls[c]
           after == codec'.calls[c]
       IN /\ (before.pc = "idle" /\ after.fn = "signCookie"
                /\ (Falsy(after.value) \/ Falsy(after.secret)))
               => /\ after.pc = "threw"
                  /\ after.error = IF after.value = <<>> \/ after.value = Null
                                   THEN "[h3-session] No value was provided!"
                                   ELSE "[h3-session] No secret was provided!"
                  /\ after.result = <<>>
                  /\ after.handle = NoKey
                  /\ codec'.signKeys = codec.signKeys
                  /\ codec'.verifyKeys = codec.verifyKeys
                  /\ codec'.minted = codec.minted
          /\ before.pc = "threw" => after = before]_vars

\* signCookie was called with neither value nor secret and threw the value
\* error, after another call had cached a signing key
C21_BothMissingValueError ==
  \E c \in KeyCalls :
    /\ codec.calls[c].fn = "signCookie"
    /\ codec.calls[c].value = Null /\ codec.calls[c].secret = <<>>
    /\ codec.calls[c].pc = "threw"
    /\ codec.calls[c].error = "[h3-session] No value was provided!"
    /\ codec.calls[c].completed # {}
    /\ codec.minted = 1

\* C22: an invocation that starts on a request without session with a config
\* lacking store or secret fails in that very step, with the store error
\* when the store is missing and the secret error otherwise; it has made no
\* call (no cookie read, no genid or generate, no store call, no setCookie),
\* leaves context, header, store and entities as they were, and does
\* nothing afterwards
C22_InvalidConfigFailsFirst ==
  [][\A t \in Tasks :
       /\ (/\ task[t].pc = "idle" /\ task'[t].pc # "idle"
           /\ ctx[task'[t].event].session = NoSession
           /\ task'[t].passed \in {"no store", "no secret", "neither"})
            => /\ task'[t].pc = "failed"
               /\ task'[t].error =
                    IF task'[t].passed = "no secret"
                    THEN "[h3-session] Session secret is required!"
                    ELSE "[h3-session] Session store is required!"
               /\ log'[t] = <<>>
               /\ UNCHANGED <<ctx, hdr, storage, ent, failures>>
       /\ (task[t].pc = "failed" /\ task[t].passed # "none")
            => task'[t] = task[t] /\ log'[t] = <<>>]_vars

\* an invocation without store and secret failed with the store error, and
\* a later invocation on the same request resolved a session
C22_FailedThenResolved ==
  /\ task[1].pc = "failed" /\ task[1].passed = "neither"
  /\ task[1].error = "[h3-session] Session store is required!"
  /\ task[2].pc = "done" /\ task[2].event = task[1].event
  /\ task[2].branch = "existing"
  /\ ctx[1].session = 2

\* the calls that asked the cache of a role for a secret
CallsFor(usage, secret) ==
  {c \in KeyCalls : /\ codec.calls[c].fn # "none"
                    /\ codec.calls[c].pc # "threw" \/ codec.calls[c].error = "TypeError"
                    /\ UsageOf(codec.calls[c].fn) = usage
                    /\ codec.calls[c].secret = secret}

\* no two of the calls began while another of them was under way
OneAtATime(calls) ==
  \A a \in calls, b \in calls : a < b => a \in codec.calls[b].completed

\* C23: for each role and secret whose calls came one at a time, a call made
\* after an earlier one has completed is never deriving a key and holds the
\* very handle the earlier call returned; and two calls for different
\* secrets never hold the same handle
C23_CachedHandleReused ==
  /\ \A usage \in {"sign", "verify"}, secret \in SecretPool :
       OneAtATime(CallsFor(usage, secret))
         => \A b \in CallsFor(usage, secret), c \in CallsFor(usage, secret) :
              b \in codec.calls[c].completed
                => /\ codec.calls[c].pc # "import"
                   /\ codec.calls[c].handle = codec.calls[b].handle
  /\ \A b \in KeyCalls, c \in KeyCalls :
       (/\ codec.calls[b].handle # NoKey /\ codec.calls[c].handle # NoKey
        /\ codec.calls[b].secret # codec.calls[c].secret)
         => codec.calls[b].handle # codec.calls[c].handle

\* getCryptoVerifyKey was called for a secret after an earlier call for it
\* had returned; one key was derived and both hold it
C23_SecondCallSameHandle ==
  /\ codec.calls[1].fn = "getCryptoVerifyKey"
  /\ codec.calls[2].fn = "getCryptoVerifyKey"
  /\ codec.calls[1].secret = codec.calls[2].secret
  /\ 1 \in codec.calls[2].completed
  /\ codec.calls[2].pc = "returned"
  /\ codec.calls[2].handle = codec.calls[1].handle
  /\ codec.calls[2].handle.key.usage = "verify"
  /\ codec.minted = 1

\* C28: in each cache, an entry that holds a handle keeps that very handle
\* in every step, and all calls that hold a handle for one role and secret
\* hold the same one
C28_CacheEntryNeverReplaced ==
  [][/\ \A secret \in SecretPool :
          /\ codec.signKeys[secret] # NoKey
               => codec'.signKeys[secret] = codec.signKeys[secret]
          /\ codec.verifyKeys[secret] # NoKey
               => codec'.verifyKeys[secret] = codec.verifyKeys[secret]
     /\ \A b \in KeyCalls, c \in KeyCalls :
          (/\ codec'.calls[b].handle # NoKey /\ codec'.calls[c].handle # NoKey
           /\ UsageOf(codec'.calls[b].fn) = UsageOf(codec'.calls[c].fn)
           /\ codec'.calls[b].secret = codec'.calls[c].secret)
            => codec'.calls[b].handle = codec'.calls[c].handle]_vars

\* the key the store uses for an id: '<prefix>:<id>'
KeyOf(sid) == codec.opts.prefix \o <<":">> \o sid

\* C24: a set whose effective TTL (the fixed number, or the TTL function
\* applied to the data) is <= 0 leaves no entry under the id, whatever was
\* there, and a get of that id that follows returns undefined; a set whose
\* TTL is > 0 leaves the data under the id with exactly that TTL
C24_SetStoresOrRemovesByTtl ==
  [][/\ codec'.op = "set" =>
          LET ttl == getTTL(codec'.opts, codec'.data)
              key == KeyOf(codec'.sid)
          IN IF ttl > 0
             THEN codec'.kv[key] = Item(codec'.data, ttl)
             ELSE /\ ~codec'.kv[key].present
                  /\ \A k \in SharedKeys \ {key} : codec'.kv[k] = codec.kv[k]
     /\ ( /\ codec.op = "set"
          /\ getTTL(codec.opts, codec.data) <= 0
          /\ codec'.op = "get"
          /\ codec'.sid = codec.sid ) => codec'.got = Null
    ]_vars

\* a TTL function gave 0 or less for the data of a set on an id that had
\* an entry
C24_ExpiredSetRemovedEntry ==
  /\ codec.pc = "store"
  /\ codec.op = "set"
  /\ codec.opts.ttlKind = "function"
  /\ getTTL(codec.opts, codec.data) <= 0
  /\ codec.before[KeyOf(codec.sid)].present
  /\ codec.before[KeyOf(codec.sid)].value \in StoreData
  /\ ~codec.kv[KeyOf(codec.sid)].present

\* the keys of the shared storage under the store's prefix
UnderPrefix ==
  {k \in SharedKeys :
     \E n \in 1..Len(k) : SubSeq(k, 1, n) = codec.opts.prefix \o <<":">>}

\* the entries a storage holds under the store's prefix
LiveUnderPrefix(kv) == {k \in UnderPrefix : kv[k].present}

\* C25: on a storage shared with other keys, clear removes the entries under
\* the store's prefix and leaves every other key as it was; length returns
\* the number of entries under the prefix, and all returns the data values
\* of exactly those entries; length and all change nothing
C25_ClearLengthAllStayUnderPrefix ==
  [][/\ codec'.op = "clear" =>
          /\ \A k \in UnderPrefix : ~codec'.kv[k].present
          /\ \A k \in SharedKeys \ UnderPrefix : codec'.kv[k] = codec.kv[k]
     /\ codec'.op = "length" =>
          /\ codec'.count = Cardinality(LiveUnderPrefix(codec.kv))
          /\ codec'.kv = codec.kv
     /\ codec'.op = "all" =>
          /\ \A d \in StoreData \cup {ForeignData} :
               codec'.listed[d] =
                 Cardinality({k \in LiveUnderPrefix(codec.kv) :
                                codec.kv[k].value = d})
          /\ codec'.kv = codec.kv
    ]_vars

\* clear removed an entry the store had set, next to keys of other users
\* that are still there
C25_ClearedBesideForeignKeys ==
  /\ codec.pc = "store"
  /\ codec.op = "clear"
  /\ \E k \in UnderPrefix :
       codec.before[k].present /\ codec.before[k].value \in StoreData
  /\ \E k \in SharedKeys \ UnderPrefix : codec.kv[k].present
  /\ LiveUnderPrefix(codec.kv) = {}

\* the latest set or destroy of the id of the call in progress
LastWrite == codec.lastWrite[codec.sid]

\* a get of an id whose latest write is a set with a TTL > 0
GetAfterSet ==
  /\ codec.pc = "store"
  /\ codec.op = "get"
  /\ LastWrite.op = "set"
  /\ getTTL(codec.opts, LastWrite.data) > 0

\* C26 as stated: a get of an id returns the data of the latest set of that
\* id with a TTL > 0 as long as no set or destroy of the id has followed
C26_GetReturnsLastSetUntilSetOrDestroy ==
  GetAfterSet => codec.got = LastWrite.data

\* C26, with clear counted among the calls that end it: after a set with a
\* TTL > 0 the storage holds the data under '<prefix>:<id>' and every other
\* key is as before; a get changes nothing, returns the data of the latest
\* set of the id when neither a set or destroy of the id nor a clear has
\* followed, and returns undefined when the id has no entry; destroy removes
\* the entry of the id and leaves every other key as before, so it changes
\* nothing when the id has no entry
C26_SetGetDestroyByKey ==
  [][/\ ( codec'.op = "set" /\ getTTL(codec'.opts, codec'.data) > 0 ) =>
          /\ codec'.kv[codec'.opts.prefix \o <<":">> \o codec'.sid].present
          /\ codec'.kv[codec'.opts.prefix \o <<":">> \o codec'.sid].value
               = codec'.data
          /\ \A k \in SharedKeys :
               k # codec'.opts.prefix \o <<":">> \o codec'.sid
                 => codec'.kv[k] = codec.kv[k]
     /\ codec'.op = "get" =>
          /\ codec'.kv = codec.kv
          /\ ( /\ codec'.lastWrite[codec'.sid].op = "set"
               /\ getTTL(codec'.opts, codec'.lastWrite[codec'.sid].data) > 0
               /\ ~codec'.cleared[codec'.sid] )
               => codec'.got = codec'.lastWrite[codec'.sid].data
          /\ ~codec.kv[codec'.opts.prefix \o <<":">> \o codec'.sid].present
               => codec'.got = Null
     /\ codec'.op = "destroy" =>
          /\ ~codec'.kv[codec'.opts.prefix \o <<":">> \o codec'.sid].present
          /\ \A k \in SharedKeys :
               k # codec'.opts.prefix \o <<":">> \o codec'.sid
                 => codec'.kv[k] = codec.kv[k]
          /\ ~codec.kv[codec'.opts.prefix \o <<":">> \o codec'.sid].present
               => codec'.kv = codec.kv
     /\ codec'.opts = codec.opts
     /\ codec.opts.prefix \in {<<"s", "e", "s", "s">>, CustomPrefix}
    ]_vars

\* a get returned the data set for its id after the entry of another id,
\* set before, had been destroyed
C26_GetAfterOtherDestroyed ==
  /\ GetAfterSet
  /\ codec.got = LastWrite.data
  /\ \E other \in StoreIds \ {codec.sid} :
       /\ codec.lastWrite[other].op = "destroy"
       /\ ~codec.kv[KeyOf(other)].present
  /\ codec.left = 0

\* the signCookie calls that have returned
SignedCalls ==
  {c \in KeyCalls :
     codec.calls[c].fn = "signCookie" /\ codec.calls[c].pc = "returned"}

\* HMAC-SHA256 of the UTF-8 bytes of 'Luke' under the key 'mySecret'
LukeDigest ==
  <<170, 9, 12, 192, 86, 214, 152, 168, 66, 176, 33, 169, 2, 5, 174,
    157, 142, 61, 141, 137, 53, 80, 178, 146, 36, 92, 177, 159, 29, 251,
    182, 234>>

\* the signature of index.test.ts 70 and of the README
LukeSignature ==
  <<"q", "g", "k", "M", "w", "F", "b", "W", "m", "K", "h", "C", "s",
    "C", "G", "p", "A", "g", "W", "u", "n", "Y", "4", "9", "j", "Y", "k",
    "1", "U", "L", "K", "S", "J", "F", "y", "x", "n", "x", "3", "7", "t",
    "u", "o">>

Served(e) == \E u \in Tasks : task[u].event = e /\ task[u].pc = "done"

\* C29: once useSession has returned on a request, and through every
\* operation on the entity that follows, the sessionId of the context is the
\* id of the session of the context
C29_SessionIdIsEntityId ==
  \A e \in Events :
    (Served(e) /\ ctx[e].session # NoSession)
      => ctx[e].sessionId = ent[ctx[e].session].id

\* the useSession invocations made on request e
InvocationsOn(e) == {t \in Tasks : task[t].pc # "idle" /\ task[t].event = e}

\* how often the invocations on request e have called genid
GenidCallsOn(e) ==
  Cardinality(UNION {{<<t, i>> : i \in {j \in CallsOf(t, "genid") :
                                            log[t][j].via = "useSession"}} :
                       t \in InvocationsOn(e)})

\* C30: whichever way the useSession invocations on one request overlap, at
\* most one of them creates a session entity, genid is called at most once
\* for the request, and once they have all returned the context holds that
\* entity, its id and its cookie
C30_OneEntityPerRequest ==
  \A e \in Events :
    /\ Cardinality({t \in InvocationsOn(e) : ent[t].made}) <= 1
    /\ GenidCallsOn(e) <= 1
    /\ \A t \in InvocationsOn(e) :
         ( /\ ent[t].made
           /\ \A u \in InvocationsOn(e) : task[u].pc \in {"done", "failed"}
           /\ ent[t].op = "idle" )
           => /\ ctx[e].session = t
              /\ ctx[e].sessionId = ent[t].id
              /\ hdr[e] = Header(ent[t].signedCookie, ent[t].cookie)

\* C31: when the useSession invocation on a request has failed (no other
\* invocation was made on the request), the context of the request has no
\* session, so the guard of a later invocation does not skip it
C31_FailureLeavesSessionUnset ==
  \A t \in Tasks :
    (task[t].pc = "failed" /\ InvocationsOn(task[t].event) = {t})
      => ctx[task[t].event].session = NoSession

\* entity x's destroy() has resolved, and it is the last thing the entity did
DestroyCompleted(x) ==
  /\ ent[x].made
  /\ ent[x].op = "idle"
  /\ ent[x].result = "ok"
  /\ Len(log[x]) > 0
  /\ log[x][Len(log[x])].op = "store.destroy"
  /\ log[x][Len(log[x])].via = "destroy"

\* some save() or regenerate(), or the save of a new session, writes sid
SavedBySomeone(sid) ==
  \/ \E y \in Tasks : \E i \in CallsOf(y, "store.set") : log[y][i].sid = sid
  \/ \E t \in Tasks : task[t].branch = "new" /\ task[t].sid = sid

\* C32: once the destroy() of an entity has resolved for its identifier, and
\* no save() or regenerate() writes that identifier, the store has no entry
\* under it, whatever the useSession invocations of other requests do (each
\* request makes one invocation)
C32_DestroyedStaysRemoved ==
  \A x \in Tasks :
    ( /\ DestroyCompleted(x)
      /\ ~SavedBySomeone(ent[x].id)
      /\ \A e \in Events : Cardinality(InvocationsOn(e)) <= 1 )
      => ~storage[getKey(DefaultStoreOptions, ent[x].id)].present

\* the identifier the entity had when its latest regenerate() was called:
\* the one handed to that call's store.destroy
IdBeforeRegenerate == LastCall(1, "store.destroy", "regenerate").sid

\* the data useSession gave the entity
DataAttached == IF task[1].data = Null THEN GenData ELSE task[1].data

\* C33: in the step in which regenerate() rejects, the entity has the
\* identifier it had before the call, the emitted cookie carries that
\* identifier, and (for the first regenerate() of the entity) the data is
\* what it was before the call
C33_FailedRegenerateChangesNothing ==
  [][( /\ ent[1].op = "regenerate"
       /\ ent[1].result = ""
       /\ ent'[1].result = "failed" )
       => /\ ent'[1].id = IdBeforeRegenerate
          /\ hdr'[1].value = <<"s", ":">> \o IdBeforeRegenerate
               \o SubSeq(hdr'[1].value, Len(hdr'[1].value) - signatureLength,
                         Len(hdr'[1].value))
          /\ Times(1, "store.destroy") = 1 => ent'[1].data = DataAttached
    ]_vars

\* C34: in the step in which useSession returns from the branch where the
\* cookie verified to an identifier and the store had no data for it, the
\* invocation has made no store.set, store.touch or store.destroy call, the
\* storage is what it was when the request arrived, and it holds no entry
\* under the identifier, whatever saveUninitialized and touch are
C34_ReusedIdentifierWritesNothing ==
  [][( /\ task[1].pc # "done"
       /\ task'[1].pc = "done"
       /\ task'[1].branch = "reuse" )
       => /\ Times(1, "store.set") = 0
          /\ Times(1, "store.touch") = 0
          /\ Times(1, "store.destroy") = 0
          /\ log'[1] = log[1]
          /\ storage' = storage0
          /\ ~storage'[getKey(DefaultStoreOptions, task'[1].sid)].present
    ]_vars

\* useSession has returned from that branch under a configuration that asks
\* for saveUninitialized and has a store with touch
C34_ReusedWithSaveUninitialized ==
  /\ task[1].pc = "done"
  /\ task[1].branch = "reuse"
  /\ config.saveUninitialized
  /\ config.hasTouch
  /\ ent[1].id = task[1].sid
  /\ ent[1].op = "idle" /\ ent[1].result = ""
  /\ ~storage[getKey(DefaultStoreOptions, task[1].sid)].present

\* C35: whatever unsignCookie was given, an identifier it returns is the
\* characters of the input from index 2 up to index length - 44, and what the
\* parser accepts splits into that identifier and the final 43 characters,
\* however many '.' or ':' the identifier holds; so a value signed with a
\* secret of the list comes back unchanged (secrets that name no inherited
\* property)
C35_IdentifierAnchoredAtEnd ==
  codec.pc = "verified" =>
    LET cookie == codec.cookie
        parsed == parseCookieValue(cookie)
    IN /\ codec.result.ok
            => codec.result.value = SubSeq(cookie, 3, Len(cookie) - 44)
       /\ parsed.matched
            => /\ parsed.message = SubSeq(cookie, 3, Len(cookie) - 44)
               /\ parsed.signature = SubSeq(cookie, Len(cookie) - 42, Len(cookie))
               /\ Len(parsed.signature) = 43
       /\ ( /\ codec.how = "signed"
            /\ Ordinary(codec.secret)
            /\ \A i \in 1..Len(codec.secrets) : Ordinary(codec.secrets[i])
            /\ InList(codec.secret, codec.secrets) )
            => codec.result = Unsigned(codec.value)

\* the identifier '.:' was signed and came back from unsignCookie
C35_DottedIdentifierReturned ==
  /\ codec.pc = "verified"
  /\ codec.how = "signed"
  /\ codec.value = <<".", ":">>
  /\ codec.result = Unsigned(<<".", ":">>)

\* C36: the cookie descriptor a session is created with has the maxAge the
\* configuration gives whenever it gives a number, and one day when it
\* gives none
C36_InitialMaxAgeIsConfigured ==
  ent[1].made =>
    ent[1].cookie.maxAge = IF config.cookieMaxAge.given
                           THEN config.cookieMaxAge.value
                           ELSE 86400

\* a step of regenerate(): its call, one of its store calls, its cookie
\* update or its return
RegenerateStep ==
  \/ ent[1].op = "regenerate"
  \/ ent'[1].op = "regenerate"
  \/ ent[1].signing /\ ~ent'[1].signing

\* C37: no step of regenerate() changes an attribute of the cookie
\* descriptor or of the emitted cookie, maxAge included: the cookie update
\* replaces the value only
C37_RegenerateKeepsAttributes ==
  [][RegenerateStep
       => /\ ent'[1].cookie = ent[1].cookie
          /\ hdr'[1].attrs = hdr[1].attrs
          /\ hdr'[1].set = hdr[1].set
          /\ hdr'[1].value # hdr[1].value
               => hdr'[1].value = ent'[1].signedCookie
    ]_vars

\* regenerate() has resolved after a destroy(): the cookie carries the new
\* identifier and maxAge is still 0
C37_RegeneratedAfterDestroy ==
  /\ CallsVia(1, "destroy") # {}
  /\ CallsVia(1, "regenerate") # {}
  /\ ent[1].op = "idle"
  /\ ent[1].result = "ok"
  /\ ~ent[1].signing
  /\ log[1][Len(log[1])].via = "regenerate"
  /\ ent[1].id # task[1].sid
  /\ hdr[1].value = ent[1].signedCookie
  /\ ent[1].cookie.maxAge = 0
  /\ hdr[1].attrs.maxAge = 0

\* C38: with every store and cryptographic operation responding, a
\* useSession invocation that has begun ends, returned with a session on the
\* context or failed, and a save, reload, destroy or regenerate call that
\* has begun resolves or rejects
C38_EveryCallSettles ==
  /\ (task[1].pc \notin {"idle", "done", "failed"})
       ~> (task[1].pc \in {"done", "failed"})
  /\ (ent[1].op # "idle") ~> (ent[1].op = "idle" /\ ent[1].result \in {"ok", "failed"})
  /\ [](task[1].pc = "done" => ctx[1].session = 1)

\* a regenerate() called after useSession returned has resolved
C38_RegenerateSettled ==
  /\ task[1].pc = "done"
  /\ CallsVia(1, "regenerate") # {}
  /\ ent[1].op = "idle"
  /\ ent[1].result = "ok"
  /\ ops = 0
====
